---- MODULE Spec2Model ----
(***************************************************************************)
(* Model of the dexter agent loop (src/src/agent/agent.ts) and of the      *)
(* financial_search tool it invokes (src/unnamed/part_001).                *)
(*                                                                         *)
(* One behaviour is one call of Agent.run.  A state is the position of the *)
(* run at a suspension point (an await or the end of the generator), the   *)
(* events it has yielded so far and the run-scoped accumulators.           *)
(* Text is a sequence of characters, so that concatenation is \o.          *)
(*                                                                         *)
(* The context compactor (src/src/utils/data-compactor.test.ts) is a set   *)
(* of pure functions: they are operators, applied by the actions of a      *)
(* second specification, CompactSpec, to inputs drawn in its initial       *)
(* states.  The combination step of financial_search is followed call by  *)
(* call under SearchSpec, and buildFullContextForAnswer, which assembles   *)
(* the context of the final answer, under ContextSpec.                     *)
(***************************************************************************)
EXTENDS Integers, Sequences, FiniteSets, TLC

\* ---------------------------------------------------------------- bounds
\* Largest configured maxIterations explored (config.maxIterations).
MaxIter == 2
\* Largest number of tool calls in one model response.
MaxCalls == 2
\* Largest number of tool calls the model requests over a whole run.
MaxToolCalls == 2
\* Largest number of chunks the answer stream yields.
MaxChunks == 2
\* Largest number of tool calls the financial_search router returns.
MaxSub == 2

\* ------------------------------------------------------------- vocabulary
FinancialSearch == "financial_search"
WebSearch == "web_search"
ToolNames == {FinancialSearch, WebSearch}
\* The tool sets an Agent can be constructed with.
ToolSets == {{}, {FinancialSearch}, {FinancialSearch, WebSearch}}
ArgValues == {"q"}
\* Response texts and stream chunks: the empty string and a non-empty one.
Texts == {<<>>, <<"a">>}
NoToolsMessage == <<"No tools available. Please check your API key configuration.">>
MaxIterationsMessage == <<"Reached maximum iterations">>
ToolData == <<"data">>
NoResponse == [text |-> <<>>, tool_calls |-> <<>>]

\* =============================================================== compactor
\* Context compactor (src/src/utils/data-compactor.test.ts, lines 182-562),
\* token estimator (src/src/utils/token-counter.ts) and the date relevance
\* test of the query analyzer (src/unnamed/part_003).
\*
\* A JavaScript value is a tagged record.  Strings are TLA+ strings, arrays
\* are sequences, an object is its keys in insertion order with the values
\* at the same positions.  Strings of the explored inputs hold no quote, no
\* backslash and no control character, numbers are non-negative integers.
Undefined == [t |-> "undefined"]
Null == [t |-> "null"]
BigIntValue == [t |-> "bigint"]
Num(n) == [t |-> "num", n |-> n]
Str(s) == [t |-> "str", s |-> s]
Arr(items) == [t |-> "arr", items |-> items]
Obj(keys, vals) == [t |-> "obj", keys |-> keys, vals |-> vals]

\* typeof v === 'string'
IsString(v) == v.t = "str"
\* typeof v === 'object' && v !== null
IsObjectLike(v) == v.t \in {"arr", "obj"}
\* obj[key] of an object-like value: undefined when the key is absent.
Get(v, key) ==
  IF v.t = "obj" /\ \E i \in 1..Len(v.keys) : v.keys[i] = key
  THEN v.vals[CHOOSE i \in 1..Len(v.keys) : v.keys[i] = key]
  ELSE Undefined

\* ---------------------------------------------------------------- strings
\* The character of s at position i (1-based).
Ch(s, i) == SubSeq(s, i, i)
\* String.prototype.slice(0, n) for n >= 0.
SliceTo(s, n) == SubSeq(s, 1, IF n < Len(s) THEN n ELSE Len(s))
\* String.prototype.startsWith
StartsWith(s, prefix) ==
  Len(s) >= Len(prefix) /\ SubSeq(s, 1, Len(prefix)) = prefix
Digits == <<"0", "1", "2", "3", "4", "5", "6", "7", "8", "9">>
IsDigit(c) == \E d \in 1..10 : Digits[d] = c
DigitValue(c) == (CHOOSE d \in 1..10 : Digits[d] = c) - 1
\* Array.prototype.slice(0, n) for n >= 0.
SliceFirst(items, n) == SubSeq(items, 1, IF n < Len(items) THEN n ELSE Len(items))
\* Array.prototype.slice(-n) for n >= 0: slice(-0) is slice(0), the whole
\* array.
SliceLast(items, n) ==
  IF n = 0 \/ n >= Len(items) THEN items
  ELSE SubSeq(items, Len(items) - n + 1, Len(items))

\* ------------------------------------------------------- JSON.stringify
RECURSIVE Spaces(_)
Spaces(n) == IF n = 0 THEN "" ELSE " " \o Spaces(n - 1)

RECURSIVE JoinWith(_, _)
\* Array.prototype.join over a sequence of strings.
JoinWith(parts, sep) ==
  IF Len(parts) = 0 THEN ""
  ELSE IF Len(parts) = 1 THEN parts[1]
  ELSE parts[1] \o sep \o JoinWith(Tail(parts), sep)

RECURSIVE StringifyAt(_, _, _)
\* JSON.stringify(v) when minify, JSON.stringify(v, null, 2) otherwise, for a
\* value nested at the given indentation.  Numbers print in decimal, strings
\* between quotes, an empty array as [] and an empty object as {}.
StringifyAt(v, minify, indent) ==
  LET inner == indent + 2
      open == IF minify THEN "" ELSE "\n" \o Spaces(inner)
      sep == IF minify THEN "," ELSE ",\n" \o Spaces(inner)
      close == IF minify THEN "" ELSE "\n" \o Spaces(indent)
      colon == IF minify THEN ":" ELSE ": "
  IN CASE v.t = "num" -> ToString(v.n)
       [] v.t = "str" -> "\"" \o v.s \o "\""
       [] v.t = "null" -> "null"
       [] v.t = "arr" ->
            IF Len(v.items) = 0 THEN "[]"
            ELSE "[" \o open
                 \o JoinWith([i \in 1..Len(v.items) |->
                                StringifyAt(v.items[i], minify, inner)], sep)
                 \o close \o "]"
       [] v.t = "obj" ->
            IF Len(v.keys) = 0 THEN "{}"
            ELSE "{" \o open
                 \o JoinWith([i \in 1..Len(v.keys) |->
                                "\"" \o v.keys[i] \o "\"" \o colon
                                \o StringifyAt(v.vals[i], minify, inner)], sep)
                 \o close \o "}"

\* JSON.stringify of a whole value: undefined for undefined (no string is
\* produced), a TypeError for a BigInt.
StringifyThrows(v) == v.t = "bigint"
Stringify(v, minify) ==
  IF v.t = "undefined" THEN Undefined ELSE Str(StringifyAt(v, minify, 0))

\* ------------------------------------------------------------ JSON.parse
Whitespace == {" ", "\n"}
RECURSIVE SkipWs(_, _)
SkipWs(s, i) ==
  IF i <= Len(s) /\ Ch(s, i) \in Whitespace THEN SkipWs(s, i + 1) ELSE i

ParseFail == [ok |-> FALSE, val |-> Null, next |-> 0]
ParseOk(v, next) == [ok |-> TRUE, val |-> v, next |-> next]

\* Position of the first quote at or after i, 0 when there is none.
ClosingQuote(s, i) ==
  LET quotes == {j \in i..Len(s) : Ch(s, j) = "\""}
  IN IF quotes = {} THEN 0
     ELSE CHOOSE j \in quotes : \A k \in quotes : j <= k

RECURSIVE ParseDigits(_, _, _)
\* The run of digits starting at i, read in decimal with acc as its prefix.
ParseDigits(s, i, acc) ==
  IF i <= Len(s) /\ IsDigit(Ch(s, i))
  THEN ParseDigits(s, i + 1, acc * 10 + DigitValue(Ch(s, i)))
  ELSE ParseOk(Num(acc), i)

RECURSIVE ParseValue(_, _)
RECURSIVE ParseElements(_, _, _)
RECURSIVE ParseMembers(_, _, _, _)

\* The elements of an array after its opening bracket, i at the first
\* character of an element.
ParseElements(s, i, acc) ==
  LET e == ParseValue(s, i)
      j == SkipWs(s, e.next)
  IN IF ~e.ok \/ j > Len(s) THEN ParseFail
     ELSE IF Ch(s, j) = "," THEN ParseElements(s, SkipWs(s, j + 1), Append(acc, e.val))
     ELSE IF Ch(s, j) = "]" THEN ParseOk(Arr(Append(acc, e.val)), j + 1)
     ELSE ParseFail

\* The members of an object after its opening brace, i at the quote that
\* opens a key.
ParseMembers(s, i, keys, vals) ==
  LET q == IF i <= Len(s) /\ Ch(s, i) = "\"" THEN ClosingQuote(s, i + 1) ELSE 0
      key == SubSeq(s, i + 1, q - 1)
      c == SkipWs(s, q + 1)
      m == IF q # 0 /\ c <= Len(s) /\ Ch(s, c) = ":"
           THEN ParseValue(s, SkipWs(s, c + 1)) ELSE ParseFail
      j == SkipWs(s, m.next)
  IN IF ~m.ok \/ j > Len(s) THEN ParseFail
     ELSE IF Ch(s, j) = ","
       THEN ParseMembers(s, SkipWs(s, j + 1), Append(keys, key), Append(vals, m.val))
     ELSE IF Ch(s, j) = "}"
       THEN ParseOk(Obj(Append(keys, key), Append(vals, m.val)), j + 1)
     ELSE ParseFail

\* The JSON value starting at position i.
ParseValue(s, i) ==
  IF i > Len(s) THEN ParseFail
  ELSE LET c == Ch(s, i) IN
    CASE IsDigit(c) -> ParseDigits(s, i, 0)
      [] c = "\"" ->
           LET q == ClosingQuote(s, i + 1)
           IN IF q = 0 THEN ParseFail ELSE ParseOk(Str(SubSeq(s, i + 1, q - 1)), q + 1)
      [] c = "n" ->
           IF i + 3 <= Len(s) /\ SubSeq(s, i, i + 3) = "null" THEN ParseOk(Null, i + 4) ELSE ParseFail
      [] c = "[" ->
           LET j == SkipWs(s, i + 1)
           IN IF j <= Len(s) /\ Ch(s, j) = "]" THEN ParseOk(Arr(<<>>), j + 1)
              ELSE ParseElements(s, j, <<>>)
      [] c = "{" ->
           LET j == SkipWs(s, i + 1)
           IN IF j <= Len(s) /\ Ch(s, j) = "}" THEN ParseOk(Obj(<<>>, <<>>), j + 1)
              ELSE ParseMembers(s, j, <<>>, <<>>)
      [] OTHER -> ParseFail

\* JSON.parse(s): ok is FALSE where JSON.parse throws a SyntaxError.
JsonParse(s) ==
  LET p == ParseValue(s, SkipWs(s, 1))
  IN IF p.ok /\ SkipWs(s, p.next) = Len(s) + 1 THEN p ELSE ParseFail

\* ------------------------------------------------------------------ dates
DateSeparators == {"-", "/"}
\* The decimal value of the digits of s between two positions.
DecimalAt(s, from, to) == ParseDigits(SubSeq(s, from, to), 1, 0).val.n

\* new Date(s) for the date strings of the explored inputs: a calendar date
\* YYYY-MM-DD is valid, every other string is an Invalid Date.  getTime is
\* kept as an order-preserving day number in place of milliseconds, and
\* getFullYear is the year of the string (the explored dates are not within a
\* day of a year boundary, where the local time zone decides).
InvalidDate == [valid |-> FALSE, time |-> 0, year |-> 0]
CalendarDate(year, month, day) ==
  IF month \in 1..12 /\ day \in 1..28
  THEN [valid |-> TRUE, time |-> year * 372 + (month - 1) * 31 + day, year |-> year]
  ELSE InvalidDate
NewDate(s) ==
  IF /\ Len(s) = 10
     /\ \A i \in {1, 2, 3, 4, 6, 7, 9, 10} : IsDigit(Ch(s, i))
     /\ \A i \in {5, 8} : Ch(s, i) = "-"
  THEN CalendarDate(DecimalAt(s, 1, 4), DecimalAt(s, 6, 7), DecimalAt(s, 9, 10))
  ELSE InvalidDate

\* /^\d{4}[-/]\d{1,2}[-/]\d{1,2}/.test(value)
MatchesDatePattern(s) ==
  /\ Len(s) >= 8
  /\ \A i \in {1, 2, 3, 4, 6} : IsDigit(Ch(s, i))
  /\ Ch(s, 5) \in DateSeparators
  /\ \E p \in {7, 8} :
       /\ p + 1 <= Len(s)
       /\ p = 8 => IsDigit(Ch(s, 7))
       /\ Ch(s, p) \in DateSeparators /\ IsDigit(Ch(s, p + 1))

\* ---------------------------------------------------------- query analyzer
\* A QueryContext as the compactor reads it: the years mentioned and the date
\* ranges by the years of their ends.  present is FALSE for the null context
\* of a call without query and without queryContext.
NoContext == [present |-> FALSE, years |-> <<>>, dateRanges |-> <<>>]
Context(years, dateRanges) ==
  [present |-> TRUE, years |-> years, dateRanges |-> dateRanges]

Abs(n) == IF n < 0 THEN -n ELSE n

\* isDateRelevant once new Date(dateStr) is made.
IsRelevant(date, context, toleranceYears, thisYear) ==
  IF ~date.valid THEN TRUE
  ELSE IF Len(context.years) = 0 /\ Len(context.dateRanges) = 0
    THEN date.year >= thisYear - 3
  ELSE \/ \E i \in 1..Len(context.years) :
            Abs(date.year - context.years[i]) <= toleranceYears
       \/ \E i \in 1..Len(context.dateRanges) :
            /\ date.year >= context.dateRanges[i].start - toleranceYears
            /\ date.year <= context.dateRanges[i].end + toleranceYears

isDateRelevant(dateStr, context, toleranceYears, thisYear) ==
  IsRelevant(NewDate(dateStr), context, toleranceYears, thisYear)

\* -------------------------------------------------------------- compactor
VERBOSE_FIELDS ==
  {"reportedCurrency", "acceptedDate", "fillingDate", "link", "finalLink", "cik"}
TRUNCATABLE_TEXT_FIELDS == {"banner_image", "source_url", "article_url", "image"}
\* Characters per estimated JSON token, as the ratio CharsNum / CharsDen.
CharsNum == 7
CharsDen == 2
\* A listed string value longer than this is shortened.
UrlThreshold == 50
\* Characters kept of an unparsable URL and of a long text.
BadUrlPrefix == 50
TextPrefix == 100
\* The shrink loop runs while the cap exceeds this.
ShrinkFloor == 5
\* The cap is multiplied by ShrinkNum / ShrinkDen in each shrink round.
ShrinkNum == 7
ShrinkDen == 10
\* Elements kept when the query filter would empty an array.
FilterFallback == 20
TruncationMark == "...[truncated]"

DEFAULT_OPTIONS ==
  [maxTokens |-> 25000, maxArrayLength |-> 50, removeVerboseFields |-> TRUE,
   truncateUrls |-> TRUE, minify |-> TRUE, queryContext |-> NoContext]

\* { ...DEFAULT_OPTIONS, ...options }
WithDefaults(options) ==
  [k \in DOMAIN DEFAULT_OPTIONS |->
     IF k \in DOMAIN options THEN options[k] ELSE DEFAULT_OPTIONS[k]]

\* estimateTokens(text, 'json'): 0 for the empty string, else
\* ceil(length / 3.5).
estimateTokens(text) ==
  IF Len(text) = 0 THEN 0 ELSE (Len(text) * CharsDen + CharsNum - 1) \div CharsNum

\* estimateJsonTokens(result) for the value compactJson holds in result: a
\* string, or undefined, which !text maps to 0.
estimateJsonTokens(v) == IF IsString(v) THEN estimateTokens(v.s) ELSE 0

\* truncateString(str, maxTokens * 3.5): the comparison is made with the
\* fractional limit, slice truncates it to an integer.
truncateString(str, maxTokens) ==
  IF Len(str) * CharsDen <= maxTokens * CharsNum THEN str
  ELSE SliceTo(str, (maxTokens * CharsNum) \div CharsDen) \o TruncationMark

FilterDateFields ==
  <<"date", "timestamp", "time", "period", "fiscalDateEnding", "reportDate",
    "publishedDate">>
OrderingDateFields ==
  <<"date", "timestamp", "time", "period", "fiscalDateEnding", "reportDate">>

\* The fields of a list that name a date-like string of obj, in list order.
DateFieldsOf(obj) ==
  SelectSeq(FilterDateFields,
            LAMBDA f : /\ IsString(Get(obj, f))
                       /\ \/ MatchesDatePattern(Get(obj, f).s)
                          \/ NewDate(Get(obj, f).s).valid)

\* The first string of a sequence, "" for an empty sequence.
FirstOrNone(fields) == IF Len(fields) = 0 THEN "" ELSE fields[1]

\* findDateField: the first such field, "" for null.
findDateField(obj) == FirstOrNone(DateFieldsOf(obj))

\* What the filter returns of an array none of whose elements is relevant:
\* data.slice(0, 20).
FallbackItems_None(items) == <<>>
FallbackItems(items) == SliceFirst(items, FilterFallback)

RECURSIVE filterByQueryContext(_, _, _)
filterByQueryContext(data, context, thisYear) ==
  CASE data.t = "arr" ->
         LET dateField == IF Len(data.items) > 0 /\ IsObjectLike(data.items[1])
                          THEN findDateField(data.items[1]) ELSE ""
             keep(item) ==
               \/ ~IsObjectLike(item)
               \/ ~IsString(Get(item, dateField))
               \/ isDateRelevant(Get(item, dateField).s, context, 1, thisYear)
             filtered == SelectSeq(data.items, keep)
         IN IF dateField # ""
            THEN IF Len(filtered) > 0
                 THEN Arr([i \in 1..Len(filtered) |->
                             filterByQueryContext(filtered[i], context, thisYear)])
                 ELSE Arr(FallbackItems(data.items))
            ELSE Arr([i \in 1..Len(data.items) |->
                        filterByQueryContext(data.items[i], context, thisYear)])
    [] data.t = "obj" ->
         Obj(data.keys,
             [i \in 1..Len(data.vals) |->
                filterByQueryContext(data.vals[i], context, thisYear)])
    [] OTHER -> data

\* The fields on which both of the first two elements carry a string that
\* parses as a date, in list order.
ComparableFields(first, second) ==
  SelectSeq(OrderingDateFields,
            LAMBDA f : /\ IsString(Get(first, f)) /\ IsString(Get(second, f))
                       /\ NewDate(Get(first, f).s).valid
                       /\ NewDate(Get(second, f).s).valid)

\* d1 > d2 ? 'newest-first' : 'oldest-first'
OrderingOf(d1, d2) == IF d1.time > d2.time THEN "newest-first" ELSE "oldest-first"

\* The ordering read from the first comparable field, unknown without one.
OrderingOn(first, second, field) ==
  IF field = "" THEN "unknown"
  ELSE OrderingOf(NewDate(Get(first, field).s), NewDate(Get(second, field).s))

detectDateOrdering(arr) ==
  IF Len(arr) < 2 THEN "unknown"
  ELSE IF ~IsObjectLike(arr[1]) \/ ~IsObjectLike(arr[2]) THEN "unknown"
  ELSE OrderingOn(arr[1], arr[2], FirstOrNone(ComparableFields(arr[1], arr[2])))

\* The elements truncateArrays keeps of an array longer than maxLength.
KeepRecent_AlwaysFirst(items, maxLength) == SliceFirst(items, maxLength)
KeepRecent(items, maxLength) ==
  IF detectDateOrdering(items) = "oldest-first"
  THEN SliceLast(items, maxLength)
  ELSE SliceFirst(items, maxLength)

RECURSIVE truncateArrays(_, _)
truncateArrays(data, maxLength) ==
  CASE data.t = "arr" ->
         LET kept == IF Len(data.items) <= maxLength THEN data.items
                     ELSE KeepRecent(data.items, maxLength)
         IN Arr([i \in 1..Len(kept) |-> truncateArrays(kept[i], maxLength)])
    [] data.t = "obj" ->
         Obj(data.keys,
             [i \in 1..Len(data.vals) |-> truncateArrays(data.vals[i], maxLength)])
    [] OTHER -> data

RECURSIVE removeFields(_, _)
removeFields(data, fieldsToRemove) ==
  CASE data.t = "arr" ->
         Arr([i \in 1..Len(data.items) |-> removeFields(data.items[i], fieldsToRemove)])
    [] data.t = "obj" ->
         LET kept == SelectSeq([i \in 1..Len(data.keys) |-> i],
                               LAMBDA i : data.keys[i] \notin fieldsToRemove)
         IN Obj([j \in 1..Len(kept) |-> data.keys[kept[j]]],
                [j \in 1..Len(kept) |->
                   removeFields(data.vals[kept[j]], fieldsToRemove)])
    [] OTHER -> data

\* new URL(value).origin for the URLs of the explored inputs: the scheme
\* http:// or https:// and a host of letters, digits, dots and hyphens up to
\* the first slash.  "" where new URL throws.
HostCharacters ==
  {"a", "b", "c", "d", "e", "f", "g", "h", "i", "j", "k", "l", "m", "n", "o",
   "p", "q", "r", "s", "t", "u", "v", "w", "x", "y", "z", ".", "-",
   "0", "1", "2", "3", "4", "5", "6", "7", "8", "9"}
UrlOrigin(value) ==
  LET scheme == IF StartsWith(value, "https://") THEN "https://"
                ELSE IF StartsWith(value, "http://") THEN "http://" ELSE ""
      rest == SubSeq(value, Len(scheme) + 1, Len(value))
      slashes == {j \in 1..Len(rest) : Ch(rest, j) = "/"}
      hostLen == IF slashes = {} THEN Len(rest)
                 ELSE (CHOOSE j \in slashes : \A k \in slashes : j <= k) - 1
  IN IF scheme = "" \/ hostLen = 0 THEN ""
     ELSE IF \E j \in 1..hostLen : Ch(rest, j) \notin HostCharacters THEN ""
     ELSE scheme \o SubSeq(rest, 1, hostLen)

\* The condition under which truncateTextFields replaces the value of a key.
IsTruncatable_AnyKey(key, value, fields) ==
  IsString(value) /\ Len(value.s) > UrlThreshold
IsTruncatable(key, value, fields) ==
  key \in fields /\ IsString(value) /\ Len(value.s) > UrlThreshold

\* The replacement of a truncatable value.
TruncatedText_AlwaysPrefix(value) == SliceTo(value, TextPrefix) \o "..."
TruncatedText(value) ==
  IF StartsWith(value, "http")
  THEN IF UrlOrigin(value) # "" THEN UrlOrigin(value) \o "/..."
       ELSE SliceTo(value, BadUrlPrefix) \o "..."
  ELSE SliceTo(value, TextPrefix) \o "..."

RECURSIVE truncateTextFields(_, _)
truncateTextFields(data, fields) ==
  CASE data.t = "arr" ->
         Arr([i \in 1..Len(data.items) |-> truncateTextFields(data.items[i], fields)])
    [] data.t = "obj" ->
         Obj(data.keys,
             [i \in 1..Len(data.keys) |->
                IF IsTruncatable(data.keys[i], data.vals[i], fields)
                THEN Str(TruncatedText(data.vals[i].s))
                ELSE truncateTextFields(data.vals[i], fields)])
    [] OTHER -> data

\* Passes 1 to 4 of compactJson on the parsed input with one array cap.
AfterRemoval(parsed, opts, arrayLimit, thisYear) ==
  LET filtered == IF opts.queryContext.present
                  THEN filterByQueryContext(parsed, opts.queryContext, thisYear)
                  ELSE parsed
      truncated == truncateArrays(filtered, arrayLimit)
  IN IF opts.removeVerboseFields THEN removeFields(truncated, VERBOSE_FIELDS)
     ELSE truncated

Compacted(parsed, opts, arrayLimit, thisYear) ==
  IF opts.truncateUrls
  THEN truncateTextFields(AfterRemoval(parsed, opts, arrayLimit, thisYear),
                          TRUNCATABLE_TEXT_FIELDS)
  ELSE AfterRemoval(parsed, opts, arrayLimit, thisYear)

\* Passes 1 to 4 and the serialization.
Serialized(parsed, opts, arrayLimit, thisYear) ==
  Stringify(Compacted(parsed, opts, arrayLimit, thisYear), opts.minify)

\* Math.floor(arrayLimit * 0.7); in double arithmetic the same value for
\* every cap below 90.
NextLimit_Half(arrayLimit) == arrayLimit \div 2
NextLimit(arrayLimit) == (arrayLimit * ShrinkNum) \div ShrinkDen

RECURSIVE ShrinkLoop(_, _, _, _, _)
\* Pass 5: result and arrayLimit when the while loop exits.
ShrinkLoop(parsed, opts, arrayLimit, result, thisYear) ==
  IF estimateJsonTokens(result) > opts.maxTokens /\ arrayLimit > ShrinkFloor
  THEN ShrinkLoop(parsed, opts, NextLimit(arrayLimit),
                  Serialized(parsed, opts, NextLimit(arrayLimit), thisYear), thisYear)
  ELSE [result |-> result, arrayLimit |-> arrayLimit]

\* The final safety of compactJson.
HardTruncate(result, maxTokens) ==
  Str(SliceTo(result.s, (maxTokens * CharsNum) \div CharsDen) \o TruncationMark)

\* What a call of compactJson leaves: whether it threw, the value returned,
\* and the locals at the return: the path taken, the last array cap, whether
\* the final truncation was applied.
Outcome(threw, result, path, arrayLimit, truncated) ==
  [threw |-> threw, result |-> result, path |-> path,
   arrayLimit |-> arrayLimit, truncated |-> truncated]

\* compactJson from the exit of the shrink loop: the final safety and the
\* return.
Finish(loop, opts) ==
  IF estimateJsonTokens(loop.result) > opts.maxTokens
  THEN Outcome(FALSE, HardTruncate(loop.result, opts.maxTokens), "json",
               loop.arrayLimit, TRUE)
  ELSE Outcome(FALSE, loop.result, "json", loop.arrayLimit, FALSE)

\* compactJson on a parsed input: passes 1 to 5; JSON.stringify throws on a
\* BigInt.
CompactParsed(parsed, opts, thisYear) ==
  IF StringifyThrows(parsed)
  THEN Outcome(TRUE, Undefined, "json", opts.maxArrayLength, FALSE)
  ELSE Finish(ShrinkLoop(parsed, opts, opts.maxArrayLength,
                         Serialized(parsed, opts, opts.maxArrayLength, thisYear),
                         thisYear),
              opts)

\* typeof data === 'string' ? JSON.parse(data) : data
ParseInput(data) == IF IsString(data) THEN JsonParse(data.s) ELSE ParseOk(data, 0)

\* compactJson after the try block: the catch branch truncates the string.
AfterParse(parse, data, opts, thisYear) ==
  IF ~parse.ok
  THEN Outcome(FALSE, Str(truncateString(data.s, opts.maxTokens)), "string",
               opts.maxArrayLength,
               Len(data.s) * CharsDen > opts.maxTokens * CharsNum)
  ELSE CompactParsed(parse.val, opts, thisYear)

compactJson(data, options, thisYear) ==
  AfterParse(ParseInput(data), data, WithDefaults(options), thisYear)

\* compactMultipleResults: weights[i] = 1 + i / (n - 1 || 1) for the 0-based
\* index i, held as the numerator over the common denominator n - 1 || 1.
WeightDenominator(n) == IF n - 1 = 0 THEN 1 ELSE n - 1
Weight_Flat(i, n) == WeightDenominator(n)
Weight(i, n) == WeightDenominator(n) + i

RECURSIVE SumWeights(_, _)
\* weights.reduce((a, b) => a + b, 0) over the first k weights.
SumWeights(k, n) == IF k = 0 THEN 0 ELSE SumWeights(k - 1, n) + Weight(k - 1, n)

\* Math.floor((weights[i] / totalWeight) * totalBudget), in exact arithmetic.
budgetShare(i, n, totalBudget) ==
  (Weight(i, n) * totalBudget) \div SumWeights(n, n)

\* `### ${result.description}\n${compacted}`
Entry(description, budget, compacted) ==
  [threw |-> compacted.threw, budget |-> budget,
   text |-> "### " \o description \o "\n"
            \o (IF IsString(compacted.result) THEN compacted.result.s ELSE "undefined")]

\* One element of results.map: its share and its compaction.
EntryWithin(result, share, thisYear) ==
  Entry(result.description, share,
        compactJson(result.data, [maxTokens |-> share], thisYear))

compactMultipleResults(results, totalBudget, thisYear) ==
  [k \in 1..Len(results) |->
     EntryWithin(results[k], budgetShare(k - 1, Len(results), totalBudget), thisYear)]

NoOutcome == Outcome(FALSE, Undefined, "none", 0, FALSE)

\* --------------------------------------------------- compactor: the inputs
\* Longest array of the explored inputs.
MaxLen == 7
\* Largest number of results given to compactMultipleResults.
MaxResults == 3

\* The k-th day and the k-th year of the explored time series.
DateOf(kind, k) ==
  IF kind = "daily" THEN "2026-01-1" \o ToString(k)
  ELSE ToString(2017 + k) \o "-06-15"
Point(field, kind, k) ==
  Obj(<<field, "close">>, <<Str(DateOf(kind, k)), Num(k)>>)
\* A time series of n points: point k is the k-th oldest; flat repeats the
\* date of the first point.
Series(field, kind, order, n) ==
  Arr([p \in 1..n |->
         CASE order = "newest-first" -> Point(field, kind, n - p + 1)
           [] order = "oldest-first" -> Point(field, kind, p)
           [] OTHER -> Obj(<<field, "close">>, <<Str(DateOf(kind, 1)), Num(p)>>)])
Orders == {"newest-first", "oldest-first", "flat"}
SeriesShapes ==
  [field : {"date", "publishedDate"}, kind : {"daily", "annual"},
   order : Orders, n : 0..MaxLen, wrapped : BOOLEAN]
SeriesOf(shape) ==
  IF shape.wrapped
  THEN Obj(<<"ticker", "prices">>,
           <<Str("AAPL"), Series(shape.field, shape.kind, shape.order, shape.n)>>)
  ELSE Series(shape.field, shape.kind, shape.order, shape.n)
\* The query contexts explored: a year, nothing, a range of years.
Contexts ==
  {Context(<<2020>>, <<>>), Context(<<>>, <<>>),
   Context(<<>>, <<[start |-> 2019, end |-> 2021]>>)}
SeriesOptions ==
  {[maxTokens |-> m] : m \in {10, 40, 1000}}
  \cup [maxTokens : {10, 40, 1000}, maxArrayLength : {0, 3, 6}]
  \cup [maxTokens : {40, 1000}, maxArrayLength : {3}, queryContext : Contexts]
  \cup [maxTokens : {1000}, queryContext : Contexts]

\* A daily series one element longer than the filter's fallback, oldest
\* first: the days of February 2026.
TwoDigits(k) == IF k < 10 THEN "0" \o ToString(k) ELSE ToString(k)
LongSeries ==
  Arr([p \in 1..(FilterFallback + 1) |->
         Obj(<<"date", "close">>, <<Str("2026-02-" \o TwoDigits(p)), Num(p)>>)])
\* A series whose second date does not parse, between an old and a late one.
MixedSeries ==
  Arr(<<Obj(<<"date", "close">>, <<Str("2018-06-15"), Num(1)>>),
        Obj(<<"date", "close">>, <<Str("2026-13-01"), Num(2)>>),
        Obj(<<"date", "close">>, <<Str("2025-06-15"), Num(3)>>)>>)
FilterData == {LongSeries, MixedSeries}
\* maxArrayLength: 100 is the cap buildFullContextForAnswer passes.
FilterOptions ==
  [maxTokens : {1000}, maxArrayLength : {100}, queryContext : Contexts]

ShortUrl == "https://example.com/a.png"
LongUrl == "https://example.com/images/2026/01/banner-large-0001.png"
BadUrl == "http://exa mple.com/images/2026/01/banner-large-0001.png"
LongText == "Quarterly results beat expectations across all segments again"
UrlValues ==
  {Str(ShortUrl), Str(LongUrl), Str(BadUrl), Str(LongText), Num(7),
   Obj(<<"url", "banner_image">>, <<Str(LongUrl), Str(LongUrl)>>)}
Article(image, source) ==
  Obj(<<"title", "url", "image", "source_url", "cik">>,
      <<Str("T"), Str(LongUrl), image, source, Str("0001")>>)
ArticleData ==
  {Article(i, s) : i \in UrlValues, s \in UrlValues}
  \cup {Obj(<<"news">>, <<Arr(<<Article(i, Str(ShortUrl)), Article(Str(LongUrl), i)>>)>>) :
          i \in UrlValues}
ArticleOptions ==
  [maxTokens : {20, 1000}, truncateUrls : BOOLEAN,
   removeVerboseFields : BOOLEAN, minify : BOOLEAN]

\* String inputs: some are JSON texts, the others fail JSON.parse.
StringData ==
  {Str("not valid json"), Str(""), Str("[1,2,3]"), Str("[1,2"),
   Str("{\"a\": 1}"), Str("\"quoted\""), Str("12"), Str(LongText),
   Str("[{\"date\":\"2026-01-11\"},{\"date\":\"2026-01-12\"}]")}
\* Values that are neither strings nor containers.
ScalarData == {Undefined, Null, Num(5), BigIntValue, Arr(<<>>), Obj(<<>>, <<>>)}
PlainOptions ==
  {[maxTokens |-> m] : m \in {0, 2, 4, 1000}}
  \cup [maxTokens : {2, 1000}, maxArrayLength : {0}]

\* The calls of compactJson explored: data and options.
CompactJsonInputs ==
  {[data |-> SeriesOf(shape), options |-> o] : shape \in SeriesShapes, o \in SeriesOptions}
  \cup [data : ArticleData, options : ArticleOptions]
  \cup [data : StringData \cup ScalarData, options : PlainOptions]
  \cup [data : FilterData, options : FilterOptions]

\* The results given to compactMultipleResults: the description of a result
\* is the letter of its position.
Descriptions == <<"A", "B", "C", "D", "E">>
ResultData ==
  {Series("date", "daily", "newest-first", MaxLen), Article(Str(LongUrl), Str(ShortUrl)),
   Str("not valid json"), Num(5)}
ResultLists ==
  UNION {[1..n -> ResultData] : n \in 0..MaxResults}
TotalBudgets == {0, 10, 90, 3000}
CurrentYears == {2022, 2026}

VARIABLES
  tools,            \* this.tools / this.toolMap: names of the configured tools
  maxIterations,    \* this.maxIterations
  aborted,          \* this.signal.aborted (never true of a run without a signal)
  pc,               \* position of the run
  events,           \* the AgentEvents yielded so far
  iteration,        \* let iteration
  response,         \* const response (the latest primary model response)
  idx,              \* index of the tool call being executed in response.tool_calls
  records,          \* executeToolCalls: records
  summaries,        \* executeToolCalls: summaries
  promptEntries,    \* executeToolCalls: promptEntries
  allToolCalls,     \* run: allToolCalls
  allSummaries,     \* run: allSummaries
  scratchpad,       \* run: scratchpad entries
  fullAnswer,       \* run: fullAnswer
  nChunks,          \* chunks the stream has yielded
  inFlight,         \* operations in flight, by kind
  branch,           \* which statement of run yielded done
  failure,          \* which call rejected outside a try block: model or stream
  modelCalls,       \* primary model calls made
  toolInvocations,  \* tool.invoke calls made by the loop
  storeAccesses,    \* ContextManager calls made
  streamCalls,      \* streamLlmResponse calls made
  cpc,              \* position of the compactor call
  call,             \* the compactor function called
  data,             \* compactJson: data
  options,          \* compactJson: options
  thisYear,         \* new Date().getFullYear() at the call
  outcome,          \* what compactJson(data, options) left
  again,            \* what compactJson(outcome.result, options) left
  results,          \* compactMultipleResults: results
  totalBudget,      \* compactMultipleResults: totalBudget
  entries,          \* what compactMultipleResults returned
  spc,              \* position of the financial_search invocation
  toolCalls,        \* financial_search: toolCalls (the router's tool calls)
  settled,          \* how each sub-tool call ended, by index in toolCalls
  searchResults,    \* financial_search: results (what Promise.all collects)
  completions,      \* the indices of the sub-tool calls in completion order
  combinedData,     \* financial_search: combinedData
  allUrls,          \* financial_search: allUrls
  bpc,              \* position of the buildFullContextForAnswer call
  answerSummaries,  \* buildFullContextForAnswer: summaries
  budget,           \* getTokenBudget(this.model)
  filepaths,        \* buildFullContextForAnswer: filepaths
  contexts,         \* what loadFullContexts(filepaths) returned
  formattedContexts,\* buildFullContextForAnswer: formattedContexts
  fullContext       \* the string buildFullContextForAnswer returned

cfgVars == <<tools, maxIterations>>
loopVars == <<iteration, response, idx, records, summaries, promptEntries,
              allToolCalls, allSummaries, scratchpad>>
answerVars == <<fullAnswer, nChunks>>
countVars == <<modelCalls, toolInvocations, storeAccesses, streamCalls>>
agentVars == <<tools, maxIterations, aborted, pc, events, loopVars, answerVars,
               inFlight, branch, failure, countVars>>
compactorVars == <<cpc, call, data, options, thisYear, outcome, again, results,
                   totalBudget, entries>>
searchVars == <<spc, toolCalls, settled, searchResults, completions, combinedData,
                allUrls>>
contextVars == <<bpc, answerSummaries, budget, filepaths, contexts,
                 formattedContexts, fullContext>>
sideVars == <<searchVars, contextVars>>
vars == <<cfgVars, aborted, pc, events, loopVars, answerVars, inFlight,
          branch, failure, countVars, compactorVars, sideVars>>

\* No compactor call is under way during a run of the agent loop.
CompactorIdle ==
  /\ cpc = "idle"
  /\ call = "none"
  /\ data = Undefined
  /\ options = [maxTokens |-> 0]
  /\ thisYear = 0
  /\ outcome = NoOutcome
  /\ again = NoOutcome
  /\ results = <<>>
  /\ totalBudget = 0
  /\ entries = <<>>

\* No financial_search invocation is followed call by call.
SearchIdle ==
  /\ spc = "idle"
  /\ toolCalls = <<>>
  /\ settled = <<>>
  /\ searchResults = <<>>
  /\ completions = <<>>
  /\ combinedData = Obj(<<>>, <<>>)
  /\ allUrls = <<>>
\* No call of buildFullContextForAnswer is followed pass by pass.
ContextIdle ==
  /\ bpc = "idle"
  /\ answerSummaries = <<>>
  /\ budget = [toolResults |-> 0, perToolResult |-> 0]
  /\ filepaths = <<>>
  /\ contexts = <<>>
  /\ formattedContexts = <<>>
  /\ fullContext = ""
\* Nothing but the agent loop is modelled step by step.
SideIdle == SearchIdle /\ ContextIdle


\* ---------------------------------------------------------------- helpers
Last(s) == s[Len(s)]
Min(S) == CHOOSE x \in S : \A y \in S : x <= y
Max(S) == CHOOSE x \in S : \A y \in S : x >= y

RECURSIVE Concat(_)
\* Concatenation of a sequence of texts, in order.
Concat(ss) == IF ss = <<>> THEN <<>> ELSE Head(ss) \o Concat(Tail(ss))

OpKinds == {"model", "tool", "summarizer", "stream", "router", "sub"}
NothingInFlight == [k \in OpKinds |-> 0]
\* An operation of kind k is started (its promise is pending).
Launch(f, k) == [f EXCEPT ![k] = @ + 1]
\* n operations of kind k are started together.
LaunchMany(f, k, n) == [f EXCEPT ![k] = @ + n]
\* The awaited operation of kind k is settled before the caller goes on.
SettleSkipped(f, k) == f
Settle(f, k) == [f EXCEPT ![k] = @ - 1]
\* Operations in flight that the agent loop itself issued.
AgentOps(f) == f["model"] + f["tool"] + f["summarizer"] + f["stream"]
\* Operations in flight inside a financial_search invocation.
NestedOps(f) == f["router"] + f["sub"]

\* utils/ai-message: hasToolCalls, extractTextContent
hasToolCalls(r) == Len(r.tool_calls) > 0
extractTextContent(r) == r.text

\* ContextManager (external store)
getToolDescription(toolName, toolArgs) == <<toolName, toolArgs>>
saveAndGetSummary(toolName, toolArgs, result) ==
  [id |-> <<toolName, toolArgs>>, toolName |-> toolName, args |-> toolArgs,
   summary |-> getToolDescription(toolName, toolArgs)]

\* ----------------------------------------------------------------- events
Thinking(t) == [type |-> "thinking", message |-> t]
ToolStart(n, a) == [type |-> "tool_start", tool |-> n, args |-> a]
ToolEnd(n, a, r) == [type |-> "tool_end", tool |-> n, args |-> a, result |-> r]
ToolError(n, e) == [type |-> "tool_error", tool |-> n, error |-> e]
AnswerStart == [type |-> "answer_start"]
AnswerChunk(t) == [type |-> "answer_chunk", text |-> t]
Done(a, tc, i) == [type |-> "done", answer |-> a, toolCalls |-> tc, iterations |-> i]

\* The tool call being executed.
toolCall_Reversed == response.tool_calls[Len(response.tool_calls) - idx + 1]
toolCall == response.tool_calls[idx]

\* ------------------------------------------------------------------- Init
Init ==
  /\ tools \in ToolSets
  /\ maxIterations \in 0..MaxIter
  /\ aborted = FALSE
  /\ pc = "start"
  /\ events = <<>>
  /\ iteration = 0
  /\ response = NoResponse
  /\ idx = 0
  /\ records = <<>>
  /\ summaries = <<>>
  /\ promptEntries = <<>>
  /\ allToolCalls = <<>>
  /\ allSummaries = <<>>
  /\ scratchpad = <<>>
  /\ fullAnswer = <<>>
  /\ nChunks = 0
  /\ inFlight = NothingInFlight
  /\ branch = "none"
  /\ failure = "none"
  /\ modelCalls = 0
  /\ toolInvocations = 0
  /\ storeAccesses = 0
  /\ streamCalls = 0
  /\ CompactorIdle
  /\ SideIdle


\* ------------------------------------------------- run: control structure
\* while (iteration < this.maxIterations)
LoopContinues_OffByOne(it, max) == it <= max
LoopContinues(it, max) == it < max

\* buildFullContextForAnswer: ids of the summaries that were stored.
RECURSIVE StoredIds(_)
StoredIds(sums) ==
  IF sums = <<>> THEN <<>>
  ELSE IF Len(Head(sums).id) > 0 THEN <<Head(sums).id>> \o StoredIds(Tail(sums))
  ELSE StoredIds(Tail(sums))

\* Store calls of buildFullContextForAnswer: loadFullContexts once, then
\* getToolDescription for each loaded context.
LoadCount(sums) == IF StoredIds(sums) = <<>> THEN 0 ELSE 1 + Len(StoredIds(sums))

GenerateFinalAnswer_NoStart(site, evs, f, store, sums) ==
  /\ events' = evs
  /\ pc' = site
  /\ inFlight' = Launch(f, "stream")
  /\ streamCalls' = streamCalls + 1
  /\ storeAccesses' = store
\* generateFinalAnswer up to its first await: answer_start is yielded, the
\* context is built and the stream is opened.  site is the statement of run
\* that consumes the generator.
GenerateFinalAnswer(site, evs, f, store, sums) ==
  /\ events' = Append(evs, AnswerStart)
  /\ pc' = site
  /\ inFlight' = Launch(f, "stream")
  /\ streamCalls' = streamCalls + 1
  /\ storeAccesses' = store + LoadCount(sums)

\* The head of the main loop: either the next iteration's model call is made
\* or the loop is left for the max-iterations answer.
LoopHead(evs, f, store, sums) ==
  IF LoopContinues(iteration, maxIterations)
  THEN /\ iteration' = iteration + 1
       /\ events' = evs
       /\ pc' = "model"
       /\ inFlight' = Launch(f, "model")
       /\ modelCalls' = modelCalls + 1
       /\ storeAccesses' = store
       /\ UNCHANGED streamCalls
  ELSE /\ UNCHANGED <<iteration, modelCalls>>
       /\ GenerateFinalAnswer("stream_max", evs, f, store, sums)

\* if (this.tools.length === 0)
NoTools_Never(ts) == FALSE
NoTools(ts) == ts = {}

\* run is called: the configuration guard, then the first loop test.
Start ==
  /\ pc = "start"
  /\ IF NoTools(tools)
     THEN /\ events' = <<Done(NoToolsMessage, <<>>, 0)>>
          /\ pc' = "done"
          /\ branch' = "guard"
          /\ UNCHANGED <<iteration, inFlight, countVars>>
     ELSE /\ LoopHead(<<>>, inFlight, storeAccesses, allSummaries)
          /\ UNCHANGED <<branch, toolInvocations>>
  /\ UNCHANGED <<cfgVars, compactorVars, sideVars, aborted, response, idx, records, summaries, promptEntries,
                 allToolCalls, allSummaries, scratchpad, answerVars, failure>>

\* ------------------------------------------------------ primary model call
\* The tool-call lists a model response can carry within the bounds.
CallLists(room) ==
  UNION {[1..n -> [name : ToolNames, args : ArgValues]] :
           n \in 1..(IF room < MaxCalls THEN room ELSE MaxCalls)}

\* callModel rejects: nothing in run catches it.
ModelFail_Caught ==
  /\ pc = "model"
  /\ events' = Append(events, Done(<<>>, allToolCalls, iteration))
  /\ pc' = "done"
  /\ branch' = "caught"
  /\ failure' = "model"
  /\ inFlight' = Settle(inFlight, "model")
  /\ UNCHANGED <<cfgVars, compactorVars, sideVars, aborted, loopVars, answerVars, countVars>>
ModelFail ==
  /\ pc = "model"
  /\ pc' = "threw"
  /\ failure' = "model"
  /\ inFlight' = Settle(inFlight, "model")
  /\ UNCHANGED <<cfgVars, compactorVars, sideVars, aborted, events, loopVars, answerVars, branch,
                 countVars>>

\* The response carries tool calls: thinking is emitted when it also has
\* text, and executeToolCalls starts.
ModelRequestsTools ==
  /\ pc = "model"
  /\ ~aborted
  /\ \E text \in Texts, calls \in CallLists(MaxToolCalls - Len(allToolCalls)) :
       /\ response' = [text |-> text, tool_calls |-> calls]
       /\ events' = IF text # <<>> THEN Append(events, Thinking(text)) ELSE events
       /\ scratchpad' = IF text # <<>> THEN Append(scratchpad, text) ELSE scratchpad
  /\ pc' = "tool_start"
  /\ idx' = 1
  /\ inFlight' = Settle(inFlight, "model")
  /\ UNCHANGED <<cfgVars, compactorVars, sideVars, aborted, iteration, records, summaries, promptEntries,
                 allToolCalls, allSummaries, answerVars, branch, failure,
                 countVars>>

\* if (allSummaries.length === 0 && responseText)
IsDirectAnswer_Never(sums, text) == FALSE
IsDirectAnswer(sums, text) == Len(sums) = 0 /\ text # <<>>

\* The response carries no tool call and is used as the answer directly.
ModelDirectAnswer_NoReturn ==
  /\ pc = "model"
  /\ ~aborted
  /\ \E text \in Texts :
       /\ IsDirectAnswer(allSummaries, text)
       /\ response' = [text |-> text, tool_calls |-> <<>>]
       /\ events' = events \o <<AnswerStart, AnswerChunk(text),
                                Done(text, <<>>, iteration), AnswerStart>>
  /\ pc' = "stream_final"
  /\ branch' = "direct"
  /\ inFlight' = Launch(Settle(inFlight, "model"), "stream")
  /\ streamCalls' = streamCalls + 1
  /\ UNCHANGED <<cfgVars, compactorVars, sideVars, aborted, iteration, idx, records, summaries, promptEntries,
                 allToolCalls, allSummaries, scratchpad, answerVars, failure,
                 modelCalls, toolInvocations, storeAccesses>>
ModelDirectAnswer ==
  /\ pc = "model"
  /\ ~aborted
  /\ \E text \in Texts :
       /\ IsDirectAnswer(allSummaries, text)
       /\ response' = [text |-> text, tool_calls |-> <<>>]
       /\ events' = events \o <<AnswerStart, AnswerChunk(text),
                                Done(text, <<>>, iteration)>>
  /\ pc' = "done"
  /\ branch' = "direct"
  /\ inFlight' = Settle(inFlight, "model")
  /\ UNCHANGED <<cfgVars, compactorVars, sideVars, aborted, iteration, idx, records, summaries, promptEntries,
                 allToolCalls, allSummaries, scratchpad, answerVars, failure,
                 countVars>>

\* The response carries no tool call and final-answer generation starts.
ModelReadyForAnswer ==
  /\ pc = "model"
  /\ ~aborted
  /\ \E text \in Texts :
       /\ ~IsDirectAnswer(allSummaries, text)
       /\ response' = [text |-> text, tool_calls |-> <<>>]
  /\ GenerateFinalAnswer("stream_final", events, Settle(inFlight, "model"),
                         storeAccesses, allSummaries)
  /\ UNCHANGED <<cfgVars, compactorVars, sideVars, aborted, iteration, idx, records, summaries, promptEntries,
                 allToolCalls, allSummaries, scratchpad, answerVars, branch,
                 failure, modelCalls, toolInvocations>>


\* ------------------------------------------------------ tool-call execution
\* executeToolCalls lines 242-244 after executeToolCall returned, then either
\* the next tool call of the response or, after the last one, run lines
\* 156-165 and the loop head.
FinishToolCall(evs, rec, sum, entry, f, store) ==
  LET recs == Append(records, rec)
      sums == Append(summaries, sum)
      ents == Append(promptEntries, entry)
  IN IF idx < Len(response.tool_calls)
     THEN /\ events' = evs
          /\ records' = recs
          /\ summaries' = sums
          /\ promptEntries' = ents
          /\ idx' = idx + 1
          /\ pc' = "tool_start"
          /\ inFlight' = f
          /\ storeAccesses' = store
          /\ UNCHANGED <<iteration, allToolCalls, allSummaries, scratchpad,
                         modelCalls, streamCalls>>
     ELSE /\ allToolCalls' = allToolCalls \o recs
          /\ allSummaries' = allSummaries \o sums
          /\ scratchpad' = scratchpad \o ents
          /\ records' = <<>>
          /\ summaries' = <<>>
          /\ promptEntries' = <<>>
          /\ idx' = 0
          /\ LoopHead(evs, f, store, allSummaries \o sums)

\* The result of the record returned by the catch block: `Error: ${errorMessage}`.
errorResult_Bare(msg) == <<msg>>
errorResult(msg) == <<"Error: ", msg>>

\* The ToolSummary built in the catch block.
errorSummary(toolName, toolArgs) ==
  [id |-> <<>>, toolName |-> toolName, args |-> toolArgs,
   summary |-> getToolDescription(toolName, toolArgs) \o <<"[FAILED]">>]

\* executeToolCall's catch block: tool_error is yielded and the failed call
\* is returned as a record, a summary with an empty id and a prompt entry.
ToolFailed_Rethrown(evs, msg, f, store) ==
  /\ events' = Append(evs, ToolError(toolCall.name, msg))
  /\ pc' = "threw"
  /\ inFlight' = f
  /\ storeAccesses' = store
  /\ UNCHANGED <<iteration, idx, records, summaries, promptEntries, allToolCalls,
                 allSummaries, scratchpad, modelCalls, streamCalls>>
ToolFailed(evs, msg, f, store) ==
  FinishToolCall(Append(evs, ToolError(toolCall.name, msg)),
                 [tool |-> toolCall.name, args |-> toolCall.args,
                  result |-> errorResult(msg)],
                 errorSummary(toolCall.name, toolCall.args),
                 <<"- ">> \o errorSummary(toolCall.name, toolCall.args).summary
                         \o <<": ", msg>>,
                 f, store + 1)

\* tool.invoke resolved: the result is saved and tool_end is yielded, then
\* the summarization call is made; a save that throws lands in the catch.
ToolReturned(f, saved) ==
  IF saved
  THEN /\ events' = Append(events, ToolEnd(toolCall.name, toolCall.args, ToolData))
       /\ pc' = "summarize"
       /\ inFlight' = Launch(Settle(f, "tool"), "summarizer")
       /\ storeAccesses' = storeAccesses + 1
       /\ UNCHANGED <<iteration, idx, records, summaries, promptEntries,
                      allToolCalls, allSummaries, scratchpad, modelCalls, streamCalls>>
  ELSE ToolFailed(events, "save failed", Settle(f, "tool"), storeAccesses + 1)

\* The message of the error a rejected call carries.
RejectMessage(msg) == IF aborted THEN "aborted" ELSE msg

\* The nested operations of an invocation that was rejected are abandoned.
Abandon(f) == [f EXCEPT !["router"] = 0, !["sub"] = 0]

\* executeToolCall up to its first await: tool_start is yielded, the tool is
\* looked up and invoked.  A financial_search invocation starts with its
\* routing model call.
StartToolCall ==
  /\ pc = "tool_start"
  /\ IF toolCall.name \notin tools
     THEN /\ ToolFailed(Append(events, ToolStart(toolCall.name, toolCall.args)),
                        "not found", inFlight, storeAccesses)
          /\ UNCHANGED toolInvocations
     ELSE /\ events' = Append(events, ToolStart(toolCall.name, toolCall.args))
          /\ pc' = "invoke"
          /\ inFlight' = IF toolCall.name = FinancialSearch
                         THEN Launch(Launch(inFlight, "tool"), "router")
                         ELSE Launch(inFlight, "tool")
          /\ toolInvocations' = toolInvocations + 1
          /\ UNCHANGED <<iteration, idx, records, summaries, promptEntries,
                         allToolCalls, allSummaries, scratchpad, modelCalls,
                         storeAccesses, streamCalls>>
  /\ UNCHANGED <<cfgVars, compactorVars, sideVars, aborted, response, answerVars, branch, failure>>

\* A tool other than financial_search resolves.
InvokeReturns ==
  /\ pc = "invoke"
  /\ toolCall.name # FinancialSearch
  /\ ~aborted
  /\ \E saved \in BOOLEAN : ToolReturned(inFlight, saved)
  /\ UNCHANGED <<cfgVars, compactorVars, sideVars, aborted, response, answerVars, branch, failure,
                 toolInvocations>>

\* tool.invoke rejects: the tool failed, or the signal was aborted.
InvokeThrows ==
  /\ pc = "invoke"
  /\ toolCall.name # FinancialSearch \/ aborted
  /\ ToolFailed(events, RejectMessage("invoke failed"),
                Abandon(Settle(inFlight, "tool")), storeAccesses)
  /\ UNCHANGED <<cfgVars, compactorVars, sideVars, aborted, response, answerVars, branch, failure,
                 toolInvocations>>

\* financial_search: the routing model call rejects and so does the tool.
RouterFails ==
  /\ pc = "invoke"
  /\ inFlight["router"] > 0
  /\ ~aborted
  /\ ToolFailed(events, "router failed",
                Settle(Settle(inFlight, "router"), "tool"), storeAccesses)
  /\ UNCHANGED <<cfgVars, compactorVars, sideVars, aborted, response, answerVars, branch, failure,
                 toolInvocations>>

\* financial_search: the router returns n tool calls; the m of them whose
\* tool is found are invoked together (Promise.all over toolCalls.map), the
\* others fail at the lookup.  With nothing to wait for the tool resolves.
RouterReturns ==
  /\ pc = "invoke"
  /\ inFlight["router"] > 0
  /\ ~aborted
  /\ \E n \in 0..MaxSub, saved \in BOOLEAN :
       \E m \in 0..n :
            IF m = 0
            THEN ToolReturned(Settle(inFlight, "router"), saved)
            ELSE /\ saved
                 /\ inFlight' = LaunchMany(Settle(inFlight, "router"), "sub", m)
                 /\ UNCHANGED <<pc, events, iteration, idx, records, summaries,
                                promptEntries, allToolCalls, allSummaries,
                                scratchpad, modelCalls, storeAccesses, streamCalls>>
  /\ UNCHANGED <<cfgVars, compactorVars, sideVars, aborted, response, answerVars, branch, failure,
                 toolInvocations>>

\* financial_search: one sub-tool invocation settles (its error, if any, is
\* caught inside the tool); when it was the last, Promise.all resolves and
\* the tool returns the combined result.
SubToolSettles ==
  /\ pc = "invoke"
  /\ inFlight["sub"] > 0
  /\ ~aborted
  /\ IF inFlight["sub"] = 1
     THEN \E saved \in BOOLEAN : ToolReturned(Settle(inFlight, "sub"), saved)
     ELSE /\ inFlight' = Settle(inFlight, "sub")
          /\ UNCHANGED <<pc, events, iteration, idx, records, summaries,
                         promptEntries, allToolCalls, allSummaries, scratchpad,
                         modelCalls, storeAccesses, streamCalls>>
  /\ UNCHANGED <<cfgVars, compactorVars, sideVars, aborted, response, answerVars, branch, failure,
                 toolInvocations>>

\* summarizeToolResult resolves: executeToolCall returns the successful call.
SummarizeReturns ==
  /\ pc = "summarize"
  /\ ~aborted
  /\ FinishToolCall(events,
                    [tool |-> toolCall.name, args |-> toolCall.args, result |-> ToolData],
                    saveAndGetSummary(toolCall.name, toolCall.args, ToolData),
                    <<"learned", toolCall.name>>,
                    Settle(inFlight, "summarizer"), storeAccesses)
  /\ UNCHANGED <<cfgVars, compactorVars, sideVars, aborted, response, answerVars, branch, failure,
                 toolInvocations>>

\* summarizeToolResult rejects inside the try block: the catch block runs
\* although tool_end was already yielded.
SummarizeThrows ==
  /\ pc = "summarize"
  /\ ToolFailed(events, RejectMessage("summarize failed"),
                Settle(inFlight, "summarizer"), storeAccesses)
  /\ UNCHANGED <<cfgVars, compactorVars, sideVars, aborted, response, answerVars, branch, failure,
                 toolInvocations>>

\* ------------------------------------------------------------ answer stream
\* done.answer at the max-iterations exit: fullAnswer || fallback message.
MaxIterationsAnswer(answer) == IF answer # <<>> THEN answer ELSE MaxIterationsMessage

\* fullAnswer += event.text
Accumulate_LastOnly(answer, text) == text
Accumulate(answer, text) == answer \o text

\* The stream yields a chunk: it is relayed as answer_chunk and accumulated.
\* The stream was opened without the signal and is not affected by an abort.
StreamChunk ==
  /\ pc \in {"stream_final", "stream_max"}
  /\ nChunks < MaxChunks
  /\ \E text \in Texts :
       /\ events' = Append(events, AnswerChunk(text))
       /\ fullAnswer' = Accumulate(fullAnswer, text)
  /\ nChunks' = nChunks + 1
  /\ UNCHANGED <<cfgVars, compactorVars, sideVars, aborted, pc, loopVars, inFlight, branch, failure,
                 countVars>>

\* The stream ends: run yields done and returns.
StreamEnds ==
  /\ pc \in {"stream_final", "stream_max"}
  /\ IF pc = "stream_final"
     THEN /\ events' = Append(events, Done(fullAnswer, allToolCalls, iteration))
          /\ branch' = "final"
          /\ UNCHANGED storeAccesses
     ELSE /\ events' = Append(events, Done(MaxIterationsAnswer(fullAnswer),
                                           allToolCalls, iteration))
          /\ branch' = "max"
          /\ storeAccesses' = IF fullAnswer = <<>> THEN storeAccesses + 1
                              ELSE storeAccesses
  /\ pc' = "done"
  /\ inFlight' = Settle(inFlight, "stream")
  /\ UNCHANGED <<cfgVars, compactorVars, sideVars, aborted, loopVars, answerVars, failure,
                 modelCalls, toolInvocations, streamCalls>>

\* The stream rejects: nothing catches it.
StreamThrows ==
  /\ pc \in {"stream_final", "stream_max"}
  /\ pc' = "threw"
  /\ failure' = "stream"
  /\ inFlight' = Settle(inFlight, "stream")
  /\ UNCHANGED <<cfgVars, compactorVars, sideVars, aborted, events, loopVars, answerVars, branch,
                 countVars>>

\* ------------------------------------------------------------- cancellation
\* The caller aborts the shared signal while the run is under way.
Abort ==
  /\ ~aborted
  /\ pc \notin {"start", "done", "threw"}
  /\ aborted' = TRUE
  /\ UNCHANGED <<cfgVars, compactorVars, sideVars, pc, events, loopVars, answerVars, inFlight,
                 branch, failure, countVars>>

Next ==
  \/ Start
  \/ ModelFail
  \/ ModelRequestsTools
  \/ ModelDirectAnswer
  \/ ModelReadyForAnswer
  \/ StartToolCall
  \/ InvokeReturns
  \/ InvokeThrows
  \/ RouterFails
  \/ RouterReturns
  \/ SubToolSettles
  \/ SummarizeReturns
  \/ SummarizeThrows
  \/ StreamChunk
  \/ StreamEnds
  \/ StreamThrows
  \/ Abort

Spec == Init /\ [][Next]_vars

\* ------------------------------------------------ compactor: the machine
\* One behaviour is one call of compactJson, followed by the call of
\* compactJson on its own result, or one call of compactMultipleResults.
AgentIdle ==
  /\ tools = {}
  /\ maxIterations = 0
  /\ aborted = FALSE
  /\ pc = "start"
  /\ events = <<>>
  /\ iteration = 0
  /\ response = NoResponse
  /\ idx = 0
  /\ records = <<>>
  /\ summaries = <<>>
  /\ promptEntries = <<>>
  /\ allToolCalls = <<>>
  /\ allSummaries = <<>>
  /\ scratchpad = <<>>
  /\ fullAnswer = <<>>
  /\ nChunks = 0
  /\ inFlight = NothingInFlight
  /\ branch = "none"
  /\ failure = "none"
  /\ modelCalls = 0
  /\ toolInvocations = 0
  /\ storeAccesses = 0
  /\ streamCalls = 0

CompactInit ==
  /\ AgentIdle
  /\ SideIdle
  /\ cpc = "ready"
  /\ thisYear \in CurrentYears
  /\ outcome = NoOutcome
  /\ again = NoOutcome
  /\ entries = <<>>
  /\ \/ /\ call = "compactJson"
        /\ \E input \in CompactJsonInputs :
             data = input.data /\ options = input.options
        /\ results = <<>>
        /\ totalBudget = 0
     \/ /\ call = "compactMultipleResults"
        /\ data = Undefined
        /\ options = [maxTokens |-> 0]
        /\ \E list \in ResultLists :
             results = [k \in 1..Len(list) |->
                          [description |-> Descriptions[k], data |-> list[k]]]
        /\ totalBudget \in TotalBudgets

\* compactJson(data, options)
CompactJsonCall ==
  /\ cpc = "ready" /\ call = "compactJson"
  /\ outcome' = compactJson(data, options, thisYear)
  /\ cpc' = IF outcome'.threw THEN "threw" ELSE "compacted"
  /\ UNCHANGED <<agentVars, sideVars, call, data, options, thisYear, again, results,
                 totalBudget, entries>>

\* compactJson(compactJson(data, options), options)
CompactAgain ==
  /\ cpc = "compacted" /\ IsString(outcome.result)
  /\ again' = compactJson(outcome.result, options, thisYear)
  /\ cpc' = "recompacted"
  /\ UNCHANGED <<agentVars, sideVars, call, data, options, thisYear, outcome, results,
                 totalBudget, entries>>

\* compactMultipleResults(results, totalBudget)
CompactMultipleCall ==
  /\ cpc = "ready" /\ call = "compactMultipleResults"
  /\ entries' = compactMultipleResults(results, totalBudget, thisYear)
  /\ cpc' = "combined"
  /\ UNCHANGED <<agentVars, sideVars, call, data, options, thisYear, outcome, again,
                 results, totalBudget>>

CompactNext ==
  \/ CompactJsonCall
  \/ CompactAgain
  \/ CompactMultipleCall

CompactSpec == CompactInit /\ [][CompactNext]_vars


\* ------------------------------------------- financial_search: the machine
\* One behaviour is one invocation of the financial_search tool: the router
\* returns its tool calls, the sub-tool invocations started together by
\* toolCalls.map settle in any order, and when the last one has settled
\* Promise.all resolves and the results are combined.
FINANCE_TOOL_MAP == {"get_prices", "get_news"}
\* The tool names the router's calls carry: registered tools and one that is
\* not.
RoutedNames == FINANCE_TOOL_MAP \cup {"get_dividends"}
\* tc.args: ticker and symbol, "" for an absent one.
RoutedArgs ==
  {[ticker |-> "", symbol |-> ""], [ticker |-> "AAPL", symbol |-> ""],
   [ticker |-> "", symbol |-> "BTC"], [ticker |-> "AAPL", symbol |-> "BTC"]}
RoutedLists ==
  UNION {[1..n -> [name : RoutedNames, args : RoutedArgs]] : n \in 0..MaxSub}

\* The promise of a sub-tool call that has not settled.
Pending == [pending |-> TRUE]
\* The object the try block returns for call i: the tool's data and source
\* URLs are those of the i-th call.
Succeeded(tc, i) ==
  [tool |-> tc.name, args |-> tc.args, data |-> Num(i),
   sourceUrls |-> <<"https://source/" \o ToString(i)>>, error |-> ""]
\* The object the catch block returns.
Failed(tc, message) ==
  [tool |-> tc.name, args |-> tc.args, data |-> Null, sourceUrls |-> <<>>,
   error |-> message]

\* Promise.all: the value of the i-th promise is the i-th result.
Place_InCompletionOrder(all, i, result) ==
  LET k == Min({j \in 1..Len(all) : all[j] = Pending})
  IN [all EXCEPT ![k] = result]
Place(all, i, result) == [all EXCEPT ![i] = result]

\* ticker || symbol ? `${result.tool}_${ticker || symbol}` : result.tool
KeyOf(result) ==
  IF result.args.ticker # "" THEN result.tool \o "_" \o result.args.ticker
  ELSE IF result.args.symbol # "" THEN result.tool \o "_" \o result.args.symbol
  ELSE result.tool

\* obj[key] = value: a key the object has keeps its place.
SetKey(obj, key, value) ==
  IF \E k \in 1..Len(obj.keys) : obj.keys[k] = key
  THEN Obj(obj.keys, [k \in 1..Len(obj.keys) |->
                        IF obj.keys[k] = key THEN value ELSE obj.vals[k]])
  ELSE Obj(Append(obj.keys, key), Append(obj.vals, value))

RECURSIVE CombineSuccessful(_, _)
\* for (const result of successfulResults) combinedData[key] = result.data
CombineSuccessful(successful, obj) ==
  IF successful = <<>> THEN obj
  ELSE CombineSuccessful(Tail(successful),
                         SetKey(obj, KeyOf(Head(successful)), Head(successful).data))

\* failedResults.map((r) => ({tool, args, error}))
ErrorEntries(failed) ==
  Arr([k \in 1..Len(failed) |->
         [tool |-> failed[k].tool, args |-> failed[k].args, error |-> failed[k].error]])

\* Step 4 of financial_search: combinedData from the results.
Combine(all) ==
  LET successfulResults == SelectSeq(all, LAMBDA r : r.error = "")
      failedResults == SelectSeq(all, LAMBDA r : r.error # "")
      merged == CombineSuccessful(successfulResults, Obj(<<>>, <<>>))
  IN IF Len(failedResults) > 0
     THEN SetKey(merged, "_errors", ErrorEntries(failedResults))
     ELSE merged

RECURSIVE FlatUrls(_)
\* results.flatMap((r) => r.sourceUrls)
FlatUrls(all) == IF all = <<>> THEN <<>> ELSE Head(all).sourceUrls \o FlatUrls(Tail(all))

SearchInit ==
  /\ AgentIdle
  /\ CompactorIdle
  /\ ContextIdle
  /\ spc = "routing"
  /\ toolCalls = <<>>
  /\ settled = <<>>
  /\ searchResults = <<>>
  /\ completions = <<>>
  /\ combinedData = Obj(<<>>, <<>>)
  /\ allUrls = <<>>

\* The routing model call returns: without tool calls the tool returns an
\* error result, otherwise every tool call is started.
RouterSelects ==
  /\ spc = "routing"
  /\ \E calls \in RoutedLists :
       /\ toolCalls' = calls
       /\ settled' = [i \in 1..Len(calls) |-> Pending]
       /\ searchResults' = [i \in 1..Len(calls) |-> Pending]
       /\ IF Len(calls) = 0
          THEN /\ spc' = "returned"
               /\ combinedData' = Obj(<<"error">>, <<Str("No tools selected for query")>>)
          ELSE /\ spc' = "running"
               /\ UNCHANGED combinedData
  /\ UNCHANGED <<agentVars, compactorVars, contextVars, completions, allUrls>>

\* The i-th sub-tool call settles; after the last one Promise.all resolves
\* and the tool combines the results and returns.
Complete(i, result) ==
  /\ settled' = [settled EXCEPT ![i] = result]
  /\ searchResults' = Place(searchResults, i, result)
  /\ completions' = Append(completions, i)
  /\ IF \A j \in 1..Len(settled) : j # i => settled[j] # Pending
     THEN /\ spc' = "returned"
          /\ combinedData' = Combine(searchResults')
          /\ allUrls' = FlatUrls(searchResults')
     ELSE UNCHANGED <<spc, combinedData, allUrls>>
  /\ UNCHANGED <<agentVars, compactorVars, contextVars, toolCalls>>

\* tool.invoke resolved with a result that parses.
SubToolSucceeds ==
  /\ spc = "running"
  /\ \E i \in 1..Len(toolCalls) :
       /\ settled[i] = Pending
       /\ toolCalls[i].name \in FINANCE_TOOL_MAP
       /\ Complete(i, Succeeded(toolCalls[i], i))

\* The tool is not in the map, tool.invoke rejected, or its result does not
\* parse: the catch block returns the error.
SubToolFails ==
  /\ spc = "running"
  /\ \E i \in 1..Len(toolCalls) :
       /\ settled[i] = Pending
       /\ IF toolCalls[i].name \in FINANCE_TOOL_MAP
          THEN Complete(i, Failed(toolCalls[i], "request failed"))
          ELSE Complete(i, Failed(toolCalls[i],
                                  "Tool '" \o toolCalls[i].name \o "' not found"))

SearchNext ==
  \/ RouterSelects
  \/ SubToolSucceeds
  \/ SubToolFails

SearchSpec == SearchInit /\ [][SearchNext]_vars


\* ------------------------------- buildFullContextForAnswer: the machine
\* One behaviour is one call of buildFullContextForAnswer(summaries, query)
\* for a query that names no dates, as generateFinalAnswer makes it.
\* Largest number of summaries a call is given.
MaxSummaries == 3

\* TOKEN_BUDGETS: the fields buildFullContextForAnswer reads.
TOKEN_BUDGETS ==
  [large |-> [toolResults |-> 150000, perToolResult |-> 40000],
   small |-> [toolResults |-> 8000, perToolResult |-> 3000]]
\* getTokenBudget(model): small for a gpt-3.5 model, large otherwise.
getTokenBudget(isSmall) == IF isSmall THEN TOKEN_BUDGETS.small ELSE TOKEN_BUDGETS.large

\* The summaries a run accumulates: those of stored results and those of
\* failed calls.
SummaryKinds ==
  {saveAndGetSummary(FinancialSearch, "q", ToolData),
   saveAndGetSummary(WebSearch, "q", ToolData),
   errorSummary(WebSearch, "q")}
SummaryLists == UNION {[1..n -> SummaryKinds] : n \in 0..MaxSummaries}

RECURSIVE Doubled(_, _)
\* s repeated 2^k times.
Doubled(s, k) == IF k = 0 THEN s ELSE Doubled(s \o s, k - 1)
\* The results the store holds: a small one, and one with a text of 15,616
\* characters, which no pass of the compactor shortens.
SmallResult == Obj(<<"price">>, <<Num(5)>>)
LargeResult == Obj(<<"text">>, <<Str(Doubled(LongText, 8))>>)
\* What the store holds under an id: nothing that loads, or a result.
StoredKinds == {"missing", "small", "large"}
StoredResult(kind) == IF kind = "small" THEN SmallResult ELSE LargeResult
Stores == [{<<FinancialSearch, "q">>, <<WebSearch, "q">>} -> StoredKinds]

RECURSIVE loadFullContexts(_, _)
\* ContextManager.loadFullContexts: the contexts of the ids that load, in
\* the order of the ids.
loadFullContexts(store, ids) ==
  IF ids = <<>> THEN <<>>
  ELSE IF store[Head(ids)] = "missing" THEN loadFullContexts(store, Tail(ids))
  ELSE <<[toolName |-> Head(ids)[1], args |-> Head(ids)[2],
          result |-> StoredResult(store[Head(ids)])]>>
       \o loadFullContexts(store, Tail(ids))

\* Math.min(budget.perToolResult, Math.floor(totalBudget / contexts.length))
perResultBudget(b, n) ==
  IF b.perToolResult < b.toolResults \div n THEN b.perToolResult
  ELSE b.toolResults \div n

\* The options buildFullContextForAnswer gives compactJson; the query is
\* held as its analysis.
AnswerOptions(maxTokens) ==
  [maxTokens |-> maxTokens, maxArrayLength |-> 100, removeVerboseFields |-> TRUE,
   truncateUrls |-> TRUE, minify |-> TRUE, queryContext |-> Context(<<>>, <<>>)]

\* `### ${description}\n`
Heading(ctx) == "### " \o JoinWith(getToolDescription(ctx.toolName, ctx.args), " ") \o "\n"
\* `### ${description}\n${compactedData}`
Formatted(ctx, compacted) ==
  Heading(ctx) \o (IF IsString(compacted.result) THEN compacted.result.s ELSE "undefined")
\* The note pushed in place of the contexts left out.
OmissionNote(omitted) ==
  "### Note\n[Additional " \o ToString(omitted)
    \o " data sources omitted to fit context window]"

\* if (totalTokens + tokens > totalBudget)
ExceedsBudget_Never(totalTokens, tokens, toolResults) == FALSE
ExceedsBudget(totalTokens, tokens, toolResults) == totalTokens + tokens > toolResults

RECURSIVE FormatFrom(_, _, _, _, _, _)
\* The loop over contexts from the k-th on.
FormatFrom(ctxs, k, formatted, totalTokens, b, year) ==
  IF k > Len(ctxs) THEN formatted
  ELSE LET section ==
             Formatted(ctxs[k],
                       compactJson(ctxs[k].result,
                                   AnswerOptions(perResultBudget(b, Len(ctxs))), year))
       IN IF ExceedsBudget(totalTokens, estimateTokens(section), b.toolResults)
          THEN Append(formatted, OmissionNote(Len(ctxs) - Len(formatted)))
          ELSE FormatFrom(ctxs, k + 1, Append(formatted, section),
                          totalTokens + estimateTokens(section), b, year)

ContextInit ==
  /\ AgentIdle
  /\ CompactorIdle
  /\ SearchIdle
  /\ bpc = "ready"
  /\ answerSummaries \in SummaryLists
  /\ budget \in {getTokenBudget(isSmall) : isSmall \in BOOLEAN}
  /\ filepaths = <<>>
  /\ contexts = <<>>
  /\ formattedContexts = <<>>
  /\ fullContext = ""

\* buildFullContextForAnswer without summaries, or with summaries of failed
\* calls only.
NothingGathered ==
  /\ bpc = "ready"
  /\ StoredIds(answerSummaries) = <<>>
  /\ filepaths' = <<>>
  /\ fullContext' = IF Len(answerSummaries) = 0 THEN "No data was gathered."
                    ELSE "No data was successfully gathered."
  /\ bpc' = "returned"
  /\ UNCHANGED <<agentVars, compactorVars, searchVars, answerSummaries, budget,
                 contexts, formattedContexts>>

\* buildFullContextForAnswer with at least one stored result: the store
\* returns the contexts that load and each is compacted and formatted.
BuildFullContext ==
  /\ bpc = "ready"
  /\ StoredIds(answerSummaries) # <<>>
  /\ filepaths' = StoredIds(answerSummaries)
  /\ \E store \in Stores : contexts' = loadFullContexts(store, filepaths')
  /\ formattedContexts' = FormatFrom(contexts', 1, <<>>, 0, budget, 2026)
  /\ fullContext' = IF Len(contexts') = 0 THEN "Failed to load context data."
                    ELSE JoinWith(formattedContexts', "\n\n")
  /\ bpc' = "returned"
  /\ UNCHANGED <<agentVars, compactorVars, searchVars, answerSummaries, budget>>

ContextNext ==
  \/ NothingGathered
  \/ BuildFullContext

ContextSpec == ContextInit /\ [][ContextNext]_vars


\* ================================================================= claims
\* ------------------------------------------------------ event-stream helpers
Positions(type) == {i \in DOMAIN events : events[i].type = type}
DoneCount == Cardinality(Positions("done"))
EndsWithDone == Len(events) > 0 /\ Last(events).type = "done"

\* Position of the tool_start after position i, or one past the end.
NextStart(i) ==
  LET later == {j \in Positions("tool_start") : j > i}
  IN IF later = {} THEN Len(events) + 1 ELSE Min(later)
\* The tool_end and tool_error events between a tool_start and the next one.
Outcomes(i) ==
  {k \in (i + 1)..(NextStart(i) - 1) : events[k].type \in {"tool_end", "tool_error"}}

\* Concatenation of the answer_chunk texts after the most recent answer_start
\* (empty when there is none).
StreamedText ==
  LET starts == Positions("answer_start")
      from == IF starts = {} THEN Len(events) + 1 ELSE Max(starts) + 1
      chunks == SelectSeq(SubSeq(events, from, Len(events)),
                          LAMBDA e : e.type = "answer_chunk")
  IN Concat([i \in DOMAIN chunks |-> chunks[i].text])

\* C1 as stated: every run that has ended, however it ended, holds exactly
\* one done event, and it is the last event.
C1_ExactlyOneDoneInEveryRun ==
  pc \in {"done", "threw"} => DoneCount = 1 /\ EndsWithDone

\* C1 amended: a run that returns normally holds exactly one done event, as
\* its last event; before that, and in a run ended by a propagated error of
\* the primary model call or of the answer stream, no done event exists.
C1_OneDoneIffReturned ==
  /\ pc = "done" => DoneCount = 1 /\ EndsWithDone
  /\ pc # "done" => DoneCount = 0

C1_Witness ==
  pc = "done" /\ branch = "final" /\ Len(allToolCalls) >= 2 /\ nChunks >= 1

\* C2 as stated: each tool_start for T is followed by exactly one tool_end
\* or tool_error for T, never both and never neither, before the next
\* tool_start (and before the run returns).
C2_StartThenExactlyOneOutcome ==
  \A i \in Positions("tool_start") :
    /\ Cardinality(Outcomes(i)) <= 1
    /\ \A k \in Outcomes(i) : events[k].tool = events[i].tool
    /\ (NextStart(i) <= Len(events) \/ pc = "done") => Cardinality(Outcomes(i)) = 1

\* C3 as stated: in every done event, answer is the concatenation of the
\* answer_chunk texts after the most recent answer_start, on every path.
C3_AnswerIsStreamedText ==
  pc = "done" => Last(events).answer = StreamedText

\* C3 amended: done.answer is that concatenation on the direct-answer path,
\* on the final-answer path and on the max-iterations path when the streamed
\* text is not empty; on the max-iterations path with an empty streamed text
\* it is the fixed max-iterations message, and on the zero-tools path, where
\* nothing is streamed, it is the fixed no-tools message.
C3_AnswerIsStreamedTextOrFallback ==
  pc = "done" =>
    CASE branch = "guard" ->
           /\ Last(events).answer = NoToolsMessage
           /\ Positions("answer_start") = {} /\ Positions("answer_chunk") = {}
      [] branch = "max" /\ StreamedText = <<>> ->
           Last(events).answer = MaxIterationsMessage
      [] OTHER -> Last(events).answer = StreamedText

C3_Witness ==
  pc = "done" /\ branch = "final" /\ nChunks = 2 /\ Last(events).answer = <<"a", "a">>

\* C4: a step that emits tool_error (lookup failed or a call in the try block
\* threw) names the tool of the call, accumulates a summary with an empty id
\* whose text ends in [FAILED], and leaves the run running: at the next tool
\* call of the response, or after the last one at the loop head.  When an
\* iteration ends, one record per tool call of the response was accumulated.
C4_ToolFailureContinues ==
  [][ /\ (Len(events') > Len(events) /\ Last(events').type = "tool_error") =>
           /\ Last(events').tool = toolCall.name
           /\ Len(allSummaries' \o summaries') = Len(allSummaries \o summaries) + 1
           /\ Last(allSummaries' \o summaries').id = <<>>
           /\ Last(Last(allSummaries' \o summaries').summary) = "[FAILED]"
           /\ Last(allToolCalls' \o records').result[1] = "Error: "
           /\ pc' \notin {"done", "threw"}
           /\ idx < Len(response.tool_calls) => pc' = "tool_start" /\ idx' = idx + 1
           /\ idx = Len(response.tool_calls) => pc' \in {"model", "stream_max"}
      /\ allToolCalls' # allToolCalls =>
           Len(allToolCalls') = Len(allToolCalls) + Len(response.tool_calls)
    ]_vars

C4_Witness ==
  /\ pc = "model" /\ iteration = 2
  /\ Len(allToolCalls) = 2
  /\ allToolCalls[1].result[1] = "Error: "
  /\ allSummaries[1].id = <<>>
  /\ allToolCalls[2].result = ToolData

\* C5: when a primary model call fails, the run ends by propagating the
\* error: the failing step and every later step emit no event, and no done
\* event exists.
C5_ModelFailurePropagates ==
  [][ failure' = "model" => pc' = "threw" /\ events' = events /\ Positions("done") = {}
    ]_vars

C5_Witness ==
  failure = "model" /\ pc = "threw" /\ iteration = 2 /\ Len(events) >= 2

\* C6: in every done event, iterations is at most maxIterations and equals
\* the number of primary model calls the run made.
C6_IterationsBounded ==
  pc = "done" =>
    /\ Last(events).iterations <= maxIterations
    /\ Last(events).iterations = modelCalls

C6_Witness ==
  pc = "done" /\ branch = "max" /\ maxIterations = 2 /\ Last(events).iterations = 2

\* The first primary model call has returned a response without tool calls.
FirstResponseWithoutToolCalls ==
  /\ iteration = 1
  /\ pc \notin {"start", "model"}
  /\ failure # "model"
  /\ ~hasToolCalls(response)

DirectAnswerEvents ==
  <<AnswerStart, AnswerChunk(response.text), Done(response.text, <<>>, 1)>>

\* C7 as stated: for every text of such a first response, the run emits
\* exactly answer_start, one answer_chunk with the text and done, and makes
\* no streaming call.
C7_FirstResponseIsDirectAnswer ==
  FirstResponseWithoutToolCalls => events = DirectAnswerEvents /\ streamCalls = 0

\* C7 amended: that holds for every non-empty response text; with an empty
\* text the run enters final-answer generation (answer_start, then the
\* streaming call).
C7_NonEmptyFirstResponseIsDirectAnswer ==
  FirstResponseWithoutToolCalls =>
    IF response.text # <<>>
    THEN events = DirectAnswerEvents /\ streamCalls = 0 /\ pc = "done"
    ELSE events[1] = AnswerStart /\ streamCalls = 1

C7_Witness ==
  pc = "done" /\ branch = "direct" /\ response.text = <<"a">> /\ Len(events) = 3

\* C8: a run with zero tools emits exactly the one done event with the fixed
\* message, no tool calls and zero iterations, and makes no model call, tool
\* invocation, store access or streaming call.
C8_ZeroToolsRun ==
  (tools = {} /\ pc # "start") =>
    /\ events = <<Done(NoToolsMessage, <<>>, 0)>>
    /\ pc = "done"
    /\ modelCalls = 0 /\ toolInvocations = 0 /\ storeAccesses = 0 /\ streamCalls = 0
    /\ inFlight = NothingInFlight

C8_Witness ==
  tools = {} /\ pc = "done" /\ Len(events) = 1

\* C9 as stated: at most one model call or tool invocation is in flight,
\* counting the sub-tool invocations of financial_search.
C9_AtMostOneInFlight ==
  AgentOps(inFlight) <= 1 /\ NestedOps(inFlight) <= 1

\* C9 amended: at most one operation issued by the agent loop itself (primary
\* model call, tool invocation, summarization call, answer stream) is in
\* flight; inside a financial_search invocation the routing call runs alone,
\* and the sub-tool invocations it leads to run concurrently with each other.
C9_AtMostOneAgentOperation ==
  /\ AgentOps(inFlight) <= 1
  /\ inFlight["router"] <= 1
  /\ inFlight["router"] = 1 => inFlight["sub"] = 0
  /\ NestedOps(inFlight) > 0 =>
       pc = "invoke" /\ inFlight["tool"] = 1 /\ toolCall.name = FinancialSearch

C9_Witness ==
  inFlight["sub"] = 2 /\ inFlight["tool"] = 1 /\ AgentOps(inFlight) = 1

\* C10 as stated: once the signal is aborted, the run emits no further event.
C10_NoEventAfterAbort ==
  [][ aborted => events' = events ]_vars


\* C11: every answer_chunk event is preceded by an answer_start event.
C11_ChunkAfterAnswerStart ==
  \A i \in Positions("answer_chunk") : \E j \in Positions("answer_start") : j < i

C11_Witness ==
  pc = "stream_final" /\ nChunks = 2 /\ Len(allToolCalls) >= 1

\* The run under the scheduling the claim assumes: every pending call is
\* eventually settled and the continuation waiting for it is run.
FairSpec == Init /\ [][Next]_vars /\ WF_vars(Next)

\* C19: the run never makes more than maxIterations primary model calls; when
\* every iteration requested tool calls it enters final-answer generation
\* after exactly maxIterations model calls and its done event carries
\* iterations = maxIterations; and every run ends: it returns with done, or a
\* primary model call or the answer stream failed.
C19_MaxIterationsForcesAnswer ==
  /\ [](modelCalls <= maxIterations)
  /\ [](pc = "stream_max" => modelCalls = maxIterations /\ iteration = maxIterations)
  /\ [](branch = "max" => pc = "done" /\ Last(events).iterations = maxIterations
                          /\ modelCalls = maxIterations)
  /\ [](pc = "threw" => failure \in {"model", "stream"})
  /\ <>(pc \in {"done", "threw"})

C19_Witness ==
  /\ pc = "done" /\ branch = "max" /\ maxIterations = 2
  /\ Len(allToolCalls) = 2 /\ modelCalls = 2

\* The tool_start events emitted so far, in order.
ToolStarts(evs) == SelectSeq(evs, LAMBDA e : e.type = "tool_start")

\* C20: when an iteration starts, every tool_start emitted so far belongs to
\* an accumulated record; when an iteration whose response carries tool calls
\* ends, it has emitted exactly one tool_start per tool call of the response,
\* with the tool and args of the calls in array order.
C20_OneToolStartPerCallInOrder ==
  [][ /\ pc = "model" => Len(ToolStarts(events)) = Len(allToolCalls)
      /\ allToolCalls' # allToolCalls =>
           /\ Len(ToolStarts(events')) = Len(allToolCalls) + Len(response.tool_calls)
           /\ \A k \in 1..Len(response.tool_calls) :
                /\ ToolStarts(events')[Len(allToolCalls) + k].tool
                     = response.tool_calls[k].name
                /\ ToolStarts(events')[Len(allToolCalls) + k].args
                     = response.tool_calls[k].args
    ]_vars

C20_Witness ==
  /\ pc = "model" /\ iteration = 2 /\ Len(allToolCalls) = 2
  /\ allToolCalls[1].tool = FinancialSearch /\ allToolCalls[2].tool = WebSearch
  /\ Len(ToolStarts(events)) = 2


\* ------------------------------------------------------- compactor claims
\* The options compactJson works with, and its parsed input.
Opts == WithDefaults(options)
Parsed == ParseInput(data).val

\* C12: the string compactJson returns never has an estimated JSON token
\* count above options.maxTokens, on the JSON path and on the string path.
C12_ResultWithinBudget ==
  cpc = "compacted" /\ IsString(outcome.result)
    => estimateTokens(outcome.result.s) <= Opts.maxTokens

RECURSIVE LongestArray(_)
\* The length of the longest array of a value, at any depth.
LongestArray(v) ==
  CASE v.t = "arr" ->
         Max({Len(v.items)} \cup {LongestArray(v.items[i]) : i \in 1..Len(v.items)})
    [] v.t = "obj" ->
         Max({0} \cup {LongestArray(v.vals[i]) : i \in 1..Len(v.vals)})
    [] OTHER -> 0

\* C13: when the output of compactJson parses as JSON, none of its arrays is
\* longer than the last array cap attempted.
C13_NoArrayAboveLastCap ==
  cpc = "compacted" /\ IsString(outcome.result) /\ JsonParse(outcome.result.s).ok
    => LongestArray(JsonParse(outcome.result.s).val) <= outcome.arrayLimit

\* The array of a time series: the value itself, or its prices.
ItemsOf(v) ==
  IF v.t = "arr" THEN v.items
  ELSE IF Get(v, "prices").t = "arr" THEN Get(v, "prices").items
  ELSE <<>>
InputItems == ItemsOf(Parsed)
OutputItems ==
  IF IsString(outcome.result) /\ JsonParse(outcome.result.s).ok
  THEN ItemsOf(JsonParse(outcome.result.s).val)
  ELSE <<>>
\* The day number of the date an element carries under a field.
TimeOf(item, field) == NewDate(Get(item, field).s).time
\* Every element is an object with a valid date under the field.
Dated(items, field) ==
  \A i \in 1..Len(items) :
    /\ IsString(Get(items[i], field))
    /\ NewDate(Get(items[i], field).s).valid
Decreasing(items, field) ==
  /\ Dated(items, field)
  /\ \A i \in 1..(Len(items) - 1) : TimeOf(items[i], field) > TimeOf(items[i + 1], field)
Increasing(items, field) ==
  /\ Dated(items, field)
  /\ \A i \in 1..(Len(items) - 1) : TimeOf(items[i], field) < TimeOf(items[i + 1], field)
\* The n elements with the latest dates, in their original order.
MostRecent(items, field, n) ==
  SelectSeq(items,
            LAMBDA e : Cardinality({j \in 1..Len(items) :
                                      TimeOf(items[j], field) > TimeOf(e, field)}) < n)
\* The input is an array longer than maxArrayLength, strictly monotonic on
\* the field.
LongMonotonic(field) ==
  /\ cpc = "compacted" /\ outcome.path = "json"
  /\ Len(InputItems) > Opts.maxArrayLength
  /\ Decreasing(InputItems, field) \/ Increasing(InputItems, field)

\* C14 as stated: of an array longer than maxArrayLength and strictly
\* monotonic on its date, compactJson keeps exactly the maxArrayLength most
\* recent elements, in their original order.
C14_KeepsMaxArrayLengthMostRecent ==
  LongMonotonic("date")
    => OutputItems = MostRecent(InputItems, "date", Opts.maxArrayLength)

\* C14, amended: without a query context and when the result is not cut by
\* the final truncation, compactJson keeps exactly the most recent elements
\* up to the last cap attempted, in their original order; with a cap of 0 an
\* oldest-first array of two or more elements is kept whole; an array dated
\* only by publishedDate is cut to its first elements.
C14_KeepsMostRecentUpToLastCap ==
  /\ LongMonotonic("date") /\ ~Opts.queryContext.present /\ ~outcome.truncated
       => OutputItems =
            IF /\ outcome.arrayLimit = 0 /\ Len(InputItems) >= 2
               /\ Increasing(InputItems, "date")
            THEN InputItems
            ELSE MostRecent(InputItems, "date", outcome.arrayLimit)
  /\ LongMonotonic("publishedDate") /\ ~Opts.queryContext.present /\ ~outcome.truncated
       => OutputItems = SliceFirst(InputItems, outcome.arrayLimit)

C14_Witness ==
  /\ LongMonotonic("date") /\ Increasing(InputItems, "date")
  /\ ~Opts.queryContext.present /\ ~outcome.truncated
  /\ Len(InputItems) = 7 /\ Opts.maxArrayLength = 6 /\ outcome.arrayLimit = 4
  /\ OutputItems = SubSeq(InputItems, 4, 7)

\* C15: when compactJson(x, o) fits o.maxTokens without the final truncation,
\* compactJson(compactJson(x, o), o) = compactJson(x, o).
C15_Idempotent ==
  (/\ cpc = "recompacted" /\ ~outcome.truncated
   /\ estimateJsonTokens(outcome.result) <= Opts.maxTokens)
    => again.result = outcome.result

\* C16: compactJson never throws and returns a string; a string that fails
\* JSON.parse is returned unchanged when its length is at most
\* maxTokens * 3.5, else cut to that many characters and marked truncated.
C16_NeverThrowsReturnsString ==
  cpc \in {"compacted", "threw"}
    => /\ ~outcome.threw
       /\ IsString(outcome.result)
       /\ IsString(data) /\ ~JsonParse(data.s).ok
            => outcome.result.s =
                 IF Len(data.s) * CharsDen <= Opts.maxTokens * CharsNum THEN data.s
                 ELSE SliceTo(data.s, (Opts.maxTokens * CharsNum) \div CharsDen)
                      \o TruncationMark

RECURSIVE OnlyListedLongStringsDiffer(_, _)
\* after is before except for strings longer than 50 characters under a
\* listed key, at any depth.
OnlyListedLongStringsDiffer(before, after) ==
  CASE before.t = "arr" ->
         /\ after.t = "arr" /\ Len(after.items) = Len(before.items)
         /\ \A i \in 1..Len(before.items) :
              OnlyListedLongStringsDiffer(before.items[i], after.items[i])
    [] before.t = "obj" ->
         /\ after.t = "obj" /\ after.keys = before.keys
         /\ \A i \in 1..Len(before.keys) :
              \/ /\ before.keys[i] \in {"banner_image", "source_url", "article_url", "image"}
                 /\ IsString(before.vals[i]) /\ Len(before.vals[i].s) > 50
                 /\ IsString(after.vals[i])
              \/ OnlyListedLongStringsDiffer(before.vals[i], after.vals[i])
    [] OTHER -> after = before

\* C17: with truncateUrls, the URL pass changes only strings longer than 50
\* characters under banner_image, source_url, article_url or image; every
\* other value is the same before and after the pass, at every depth, and it
\* is the value the output holds.
C17_UrlPassChangesOnlyListedLongStrings ==
  cpc = "compacted" /\ outcome.path = "json" /\ Opts.truncateUrls
    => /\ OnlyListedLongStringsDiffer(
            AfterRemoval(Parsed, Opts, outcome.arrayLimit, thisYear),
            Compacted(Parsed, Opts, outcome.arrayLimit, thisYear))
       /\ ~outcome.truncated /\ IsString(outcome.result)
            => JsonParse(outcome.result.s).val
                 = Compacted(Parsed, Opts, outcome.arrayLimit, thisYear)

C17_Witness ==
  /\ cpc = "compacted" /\ Opts.truncateUrls /\ ~outcome.truncated
  /\ data = Article(Str(LongUrl), Str(ShortUrl))
  /\ Get(JsonParse(outcome.result.s).val, "url") = Str(LongUrl)
  /\ Get(JsonParse(outcome.result.s).val, "image") = Str("https://example.com/...")
  /\ Get(JsonParse(outcome.result.s).val, "source_url") = Str(ShortUrl)

C27_OnlyChunksThenDoneAfterAnswerStart ==
  \A i \in Positions("answer_start") : \A j \in (i + 1)..Len(events) :
    /\ events[j].type \in {"answer_chunk", "done"}
    /\ events[j].type = "done" => j = Len(events)

C27_Witness ==
  /\ pc = "done" /\ branch = "final" /\ nChunks = 2
  /\ Positions("tool_error") # {} /\ Positions("thinking") # {}

\* The result the record of the tool call started at position i carries:
\* the error message of its tool_error behind 'Error: ', or the tool's data.
RecordedResult(i) ==
  LET errors == {k \in Outcomes(i) : events[k].type = "tool_error"}
  IN IF errors = {} THEN ToolData ELSE <<"Error: ", events[Max(errors)].error>>

\* C28: when a run ends through final-answer generation, done.toolCalls holds
\* one record per tool_start event of the run, in emission order, with the
\* tool and args of the event, a failed call carrying 'Error: <message>' as
\* its result; and the record and summary lists, of the run and of the
\* iteration under way, have the same length at every point.
C28_OneRecordPerToolStart ==
  /\ Len(allToolCalls) = Len(allSummaries)
  /\ Len(records) = Len(summaries)
  /\ pc = "done" /\ branch \in {"final", "max"} =>
       LET starts == Positions("tool_start")
           recorded == Last(events).toolCalls
       IN /\ Len(recorded) = Cardinality(starts)
          /\ \A i \in starts :
               LET k == Cardinality({j \in starts : j <= i})
               IN /\ recorded[k].tool = events[i].tool
                  /\ recorded[k].args = events[i].args
                  /\ recorded[k].result = RecordedResult(i)

C28_Witness ==
  /\ pc = "done" /\ branch = "final" /\ Len(Last(events).toolCalls) = 2
  /\ Last(events).toolCalls[1].result = <<"Error: ", "invoke failed">>
  /\ Last(events).toolCalls[2].result = ToolData

\* The compactor went through the four passes once, with the cap of the
\* options, on a time series and without a query context.
PlainSeriesRun ==
  /\ cpc = "compacted" /\ outcome.path = "json"
  /\ ~Opts.queryContext.present /\ ~outcome.truncated
  /\ outcome.arrayLimit = Opts.maxArrayLength

\* C22, for a positive cap: of an array longer than the cap whose elements
\* carry dates, compactJson keeps the first N elements when the dates of the
\* first two elements are strictly decreasing, the last N when they are
\* strictly increasing, and the first N when they are equal.
C22_OrderingFromFirstTwoDates ==
  (/\ PlainSeriesRun /\ Opts.maxArrayLength > 0
   /\ Len(InputItems) > Opts.maxArrayLength /\ Dated(InputItems, "date"))
    => OutputItems =
         IF TimeOf(InputItems[1], "date") < TimeOf(InputItems[2], "date")
         THEN SubSeq(InputItems, Len(InputItems) - Opts.maxArrayLength + 1,
                     Len(InputItems))
         ELSE SubSeq(InputItems, 1, Opts.maxArrayLength)

\* The elements of the input series the filter finds relevant: those whose
\* date field is no string or is date-relevant.
RelevantItems ==
  SelectSeq(InputItems,
            LAMBDA e : \/ ~IsString(Get(e, findDateField(InputItems[1])))
                       \/ isDateRelevant(Get(e, findDateField(InputItems[1])).s,
                                         Opts.queryContext, 1, thisYear))
\* The call filtered a non-empty array of date-bearing objects.
FilteredSeriesRun ==
  /\ cpc = "compacted" /\ outcome.path = "json"
  /\ Opts.queryContext.present /\ ~outcome.truncated
  /\ Len(InputItems) > 0 /\ IsObjectLike(InputItems[1])
  /\ findDateField(InputItems[1]) # ""

\* C23: with a query context, a non-empty array of date-bearing objects is
\* never emptied by the filter: under a positive cap the output array is not
\* empty, and when no element is date-relevant and the cap does not cut it,
\* the output holds the first 20 elements of the array, all of them if it has
\* fewer.
C23_FilterNeverEmpties ==
  FilteredSeriesRun =>
    /\ outcome.arrayLimit > 0 => OutputItems # <<>>
    /\ (RelevantItems = <<>> /\ outcome.arrayLimit >= 20) =>
         OutputItems = IF Len(InputItems) <= 20 THEN InputItems
                       ELSE SubSeq(InputItems, 1, 20)

C23_Witness ==
  /\ FilteredSeriesRun /\ data = LongSeries /\ RelevantItems = <<>>
  /\ Len(InputItems) = 21 /\ OutputItems = SubSeq(InputItems, 1, 20)

\* The four passes and the serialization applied once to the parsed input
\* with an array cap.
AppliedOnce(cap) ==
  LET filtered == IF Opts.queryContext.present
                  THEN filterByQueryContext(Parsed, Opts.queryContext, thisYear)
                  ELSE Parsed
      capped == truncateArrays(filtered, cap)
      removed == IF Opts.removeVerboseFields THEN removeFields(capped, VERBOSE_FIELDS)
                 ELSE capped
      shortened == IF Opts.truncateUrls
                   THEN truncateTextFields(removed, TRUNCATABLE_TEXT_FIELDS)
                   ELSE removed
  IN Stringify(shortened, Opts.minify)
TooLarge(cap) == estimateJsonTokens(AppliedOnce(cap)) > Opts.maxTokens
RECURSIVE CapAfter(_)
\* The array cap after k rounds of the shrink loop.
CapAfter(k) == IF k = 0 THEN Opts.maxArrayLength ELSE (7 * CapAfter(k - 1)) \div 10

OriginOrLongPrefix(value) ==
  IF UrlOrigin(value) # "" THEN UrlOrigin(value) \o "/..."
  ELSE SubSeq(value, 1, IF Len(value) < 100 THEN Len(value) ELSE 100) \o "..."
\* The three replacement forms of the amended claim.
OriginOrPrefix(value) ==
  IF SubSeq(value, 1, 4) = "http"
  THEN IF UrlOrigin(value) # "" THEN UrlOrigin(value) \o "/..."
       ELSE SubSeq(value, 1, 50) \o "..."
  ELSE SubSeq(value, 1, IF Len(value) < 100 THEN Len(value) ELSE 100) \o "..."

\* The replacement the claim names, as stated or as amended.
ReplacementForm(value, amended) ==
  IF amended THEN OriginOrPrefix(value) ELSE OriginOrLongPrefix(value)

RECURSIVE ReplacedAs(_, _, _)
\* after holds, for every string longer than 50 characters under a listed
\* key of before, the replacement the claim names.
ReplacedAs(before, after, amended) ==
  CASE before.t = "arr" ->
         /\ after.t = "arr" /\ Len(after.items) = Len(before.items)
         /\ \A i \in 1..Len(before.items) :
              ReplacedAs(before.items[i], after.items[i], amended)
    [] before.t = "obj" ->
         /\ after.t = "obj" /\ after.keys = before.keys
         /\ \A i \in 1..Len(before.keys) :
              IF /\ before.keys[i] \in {"banner_image", "source_url", "article_url", "image"}
                 /\ IsString(before.vals[i]) /\ Len(before.vals[i].s) > 50
              THEN after.vals[i] = Str(ReplacementForm(before.vals[i].s, amended))
              ELSE ReplacedAs(before.vals[i], after.vals[i], amended)
    [] OTHER -> TRUE
\* The URL pass ran and its result is the output.
UrlPassRun ==
  /\ cpc = "compacted" /\ outcome.path = "json" /\ Opts.truncateUrls
  /\ ~outcome.truncated /\ IsString(outcome.result)

\* C25 as stated: a string longer than 50 characters under a listed key is
\* replaced by origin + '/...' when it parses as a URL and by its first 100
\* characters and an ellipsis otherwise.
C25_OriginOrHundredPrefix ==
  UrlPassRun =>
    ReplacedAs(AfterRemoval(Parsed, Opts, outcome.arrayLimit, thisYear),
               JsonParse(outcome.result.s).val, FALSE)

\* C25, amended: such a string is replaced by origin + '/...' when it starts
\* with 'http' and parses as a URL, by its first 50 characters and an
\* ellipsis when it starts with 'http' and does not parse, and by its first
\* 100 characters and an ellipsis when it does not start with 'http'.
C25_OriginOrFiftyOrHundredPrefix ==
  UrlPassRun =>
    ReplacedAs(AfterRemoval(Parsed, Opts, outcome.arrayLimit, thisYear),
               JsonParse(outcome.result.s).val, TRUE)

C25_Witness ==
  /\ UrlPassRun /\ data = Article(Str(BadUrl), Str(LongText))
  /\ Get(JsonParse(outcome.result.s).val, "image")
       = Str("http://exa mple.com/images/2026/01/banner-large-00...")
  /\ Get(JsonParse(outcome.result.s).val, "source_url") = Str(LongText \o "...")

\* The year of the date an element carries.
YearOf(item) == NewDate(Get(item, "date").s).year
\* The elements whose date does not parse or whose year is one of the last
\* three years up to the current one.
WithinLastThreeYears ==
  SelectSeq(InputItems,
            LAMBDA e : \/ ~NewDate(Get(e, "date").s).valid
                       \/ YearOf(e) >= thisYear - 3 /\ YearOf(e) <= thisYear)

\* C26: under a query context without years and date ranges, the filter
\* keeps of a series exactly the elements whose date does not parse or whose
\* year is not earlier than the current year - 3 and not later than the
\* current year (the first 20 elements when there is none).
C26_RelevantIffWithinLastThreeYears ==
  (/\ FilteredSeriesRun /\ Opts.queryContext = Context(<<>>, <<>>)
   /\ findDateField(InputItems[1]) = "date"
   /\ \A i \in 1..Len(InputItems) : IsString(Get(InputItems[i], "date"))
   /\ outcome.arrayLimit >= Len(InputItems))
    => OutputItems = IF WithinLastThreeYears = <<>>
                     THEN SubSeq(InputItems, 1, Len(InputItems))
                     ELSE WithinLastThreeYears

\* The sub-tool calls that succeeded and those that failed, by index.
SuccessfulCalls == {i \in 1..Len(toolCalls) : settled[i].error = ""}
FailedCalls == {i \in 1..Len(toolCalls) : settled[i].error # ""}
\* The positions of the keys of combinedData other than '_errors'.
DataKeys == {k \in 1..Len(combinedData.keys) : combinedData.keys[k] # "_errors"}
\* The '_errors' list of combinedData, empty without the key.
ErrorList ==
  IF \E k \in 1..Len(combinedData.keys) : combinedData.keys[k] = "_errors"
  THEN Get(combinedData, "_errors").items ELSE <<>>
\* The failed calls are the entries of '_errors', in the order of the calls.
ErrorsInCallOrder ==
  /\ Len(ErrorList) = Cardinality(FailedCalls)
  /\ \A i \in FailedCalls :
       ErrorList[Cardinality({j \in FailedCalls : j <= i})]
         = [tool |-> toolCalls[i].name, args |-> toolCalls[i].args,
            error |-> settled[i].error]

\* C29: when financial_search returns after a non-empty list of tool calls,
\* combinedData has as many keys other than '_errors' as sub-tool calls
\* succeeded, it holds the data of every call that succeeded, and every
\* failed call is one entry of '_errors'.
C29_EverySuccessfulCallKept ==
  (spc = "returned" /\ Len(toolCalls) > 0) =>
    /\ Cardinality(DataKeys) = Cardinality(SuccessfulCalls)
    /\ \A i \in SuccessfulCalls :
         \E k \in DataKeys : combinedData.vals[k] = settled[i].data
    /\ ErrorsInCallOrder

\* C30: what financial_search returns is fixed by the list of tool calls and
\* the way each call ended, whatever the order of completion: every key of
\* combinedData holds the data of the last successful call, in list order,
\* that has this key, and the keys stand in the order of the first such
\* calls; '_errors' lists the failed calls in list order; allUrls lists the
\* source URLs of the successful calls in list order.
C30_ResultIndependentOfCompletionOrder ==
  (spc = "returned" /\ Len(toolCalls) > 0) =>
    /\ \A k \in DataKeys :
         /\ \E i \in SuccessfulCalls : KeyOf(settled[i]) = combinedData.keys[k]
         /\ combinedData.vals[k]
              = settled[Max({i \in SuccessfulCalls :
                               KeyOf(settled[i]) = combinedData.keys[k]})].data
    /\ \A i \in SuccessfulCalls :
         \E k \in DataKeys : combinedData.keys[k] = KeyOf(settled[i])
    /\ \A k, l \in DataKeys :
         k < l => Min({i \in SuccessfulCalls : KeyOf(settled[i]) = combinedData.keys[k]})
                    < Min({i \in SuccessfulCalls : KeyOf(settled[i]) = combinedData.keys[l]})
    /\ \A k \in 1..Len(combinedData.keys) :
         combinedData.keys[k] = "_errors" => k = Len(combinedData.keys)
    /\ ErrorsInCallOrder
    /\ Len(allUrls) = Cardinality(SuccessfulCalls)
    /\ \A i \in SuccessfulCalls :
         allUrls[Cardinality({j \in SuccessfulCalls : j <= i})]
           = "https://source/" \o ToString(i)

C30_Witness ==
  /\ spc = "returned" /\ completions = <<2, 1>>
  /\ settled[1].error = "" /\ settled[2].error = ""
  /\ KeyOf(settled[1]) # KeyOf(settled[2])
  /\ allUrls = <<"https://source/1", "https://source/2">>
  /\ combinedData.vals = <<Num(1), Num(2)>>

\* The ids of the summaries of stored results, in accumulation order.
NonEmptyIds ==
  LET stored == SelectSeq(answerSummaries, LAMBDA sum : sum.id # <<>>)
  IN [k \in 1..Len(stored) |-> stored[k].id]
\* The call loaded by pointer: the ids asked for are those of the stored
\* results, in order, and none of a failed call.
LoadedByPointer ==
  /\ filepaths = NonEmptyIds
  /\ \A k \in 1..Len(filepaths) : filepaths[k] # <<>>
\* The first m formatted contexts are the sections of the first m loaded
\* results, in order.
SectionsOfFirst(m) ==
  \A k \in 1..m : StartsWith(formattedContexts[k], Heading(contexts[k]))
RECURSIVE SectionTokens(_)
\* The estimated tokens of the first m formatted contexts together.
SectionTokens(m) ==
  IF m = 0 THEN 0 ELSE SectionTokens(m - 1) + estimateTokens(formattedContexts[m])

\* C21 as stated: the context assembled from loaded results holds one
\* '### <description>' section for each of them, in accumulation order, none
\* being left out, and no failed call is loaded.
C21_SectionForEveryLoadedResult ==
  (bpc = "returned" /\ Len(contexts) > 0) =>
    /\ LoadedByPointer
    /\ Len(formattedContexts) = Len(contexts)
    /\ SectionsOfFirst(Len(contexts))

\* The context ends with the note on omitted data sources.
EndsWithNote ==
  Len(formattedContexts) > 0 /\ StartsWith(Last(formattedContexts), "### Note\n")
\* The number of '### <description>' sections of the context.
SectionCount ==
  IF EndsWithNote THEN Len(formattedContexts) - 1 ELSE Len(formattedContexts)
\* The section the first omitted result would have had.
OmittedSection ==
  Formatted(contexts[SectionCount + 1],
            compactJson(contexts[SectionCount + 1].result,
                        AnswerOptions(perResultBudget(budget, Len(contexts))), 2026))

\* C21, amended: the context holds the sections of the loaded results in
\* accumulation order up to the first one whose section would take the
\* estimated tokens of the sections above budget.toolResults; that result
\* and those after it are left out and one '### Note' section giving their
\* number ends the context; no failed call is loaded.
C21_SectionsUntilBudgetThenNote ==
  (bpc = "returned" /\ Len(contexts) > 0) =>
    /\ LoadedByPointer
    /\ SectionCount <= Len(contexts)
    /\ SectionsOfFirst(SectionCount)
    /\ SectionTokens(SectionCount) <= budget.toolResults
    /\ IF EndsWithNote
       THEN /\ SectionCount < Len(contexts)
            /\ Last(formattedContexts)
                 = "### Note\n[Additional " \o ToString(Len(contexts) - SectionCount)
                     \o " data sources omitted to fit context window]"
            /\ SectionTokens(SectionCount) + estimateTokens(OmittedSection)
                 > budget.toolResults
       ELSE SectionCount = Len(contexts)

C21_Witness ==
  /\ bpc = "returned" /\ budget = TOKEN_BUDGETS.small
  /\ Len(answerSummaries) = 3 /\ Len(contexts) = 3
  /\ \A k \in 1..3 : contexts[k].result = LargeResult
  /\ SectionCount = 2
  /\ Last(formattedContexts)
       = "### Note\n[Additional 1 data sources omitted to fit context window]"


====
